---- MODULE Spec2Model ----
(***************************************************************************)
(* AgenteDisponibilidadPC: the availability classification and aggregation *)
(* engine of src/src/agent/logic.py and the desktop driver of              *)
(* src/src/agent/ui.py, as a state machine.                                *)
(*                                                                         *)
(* Text is a sequence of one-character strings; an accented letter is the  *)
(* two-character token "a'" (a-acute) or "n~" (n-tilde).  A calendar date  *)
(* is its day ordinal, counted from 2024-01-01 = 1, so "one day later" is  *)
(* +1.  A Python value that may be None/NaN or a str is a record           *)
(* [isStr, s].  A function of the code whose body computes intermediate    *)
(* values is written as a chain of operators, one per intermediate value.  *)
(***************************************************************************)
EXTENDS Integers, Sequences, FiniteSets, TLC

\* ------------------------------------------------------------------ bounds
\* Most rows of a dataset file of several people.
MaxRows == 2
\* Last day of January 2024 that a one-person dataset file may hold.
MaxDay == 7
\* Longest raw national-ID string given to normalize_rut_value.
MaxRutLen == 11
\* Most characters of such a string that are not the digit "1".
MaxNoise == 2
\* Longest activity text given to classify_activity_flag.
MaxTextLen == 4

\* ------------------------------------------------------------ text helpers
DigitSeq == <<"0", "1", "2", "3", "4", "5", "6", "7", "8", "9">>

\* The letters: the 26 of ASCII, then the accented ones
UpperChars == <<"A","B","C","D","E","F","G","H","I","J","K","L","M",
                "N","O","P","Q","R","S","T","U","V","W","X","Y","Z",
                "A'", "E'", "I'", "N~", "O'", "U'">>

LowerChars == <<"a","b","c","d","e","f","g","h","i","j","k","l","m",
                "n","o","p","q","r","s","t","u","v","w","x","y","z",
                "a'", "e'", "i'", "n~", "o'", "u'">>

Range(seq) == {seq[i] : i \in 1..Len(seq)}

IndexOf(seq, x) == CHOOSE i \in 1..Len(seq) : seq[i] = x

\* str.upper() on one character
UpperChar(c) == IF c \in Range(LowerChars) THEN UpperChars[IndexOf(LowerChars, c)] ELSE c

\* str.lower() on one character
LowerChar(c) == IF c \in Range(UpperChars) THEN LowerChars[IndexOf(UpperChars, c)] ELSE c

StrLower(s) == [i \in 1..Len(s) |-> LowerChar(s[i])]

StrUpper(s) == [i \in 1..Len(s) |-> UpperChar(s[i])]

IsSpace(c) == c \in {" ", "\t"}

RECURSIVE LStrip(_)
LStrip(s) == IF s # <<>> /\ IsSpace(Head(s)) THEN LStrip(Tail(s)) ELSE s

RECURSIVE RStrip(_)
RStrip(s) ==
    IF s # <<>> /\ IsSpace(s[Len(s)]) THEN RStrip(SubSeq(s, 1, Len(s) - 1)) ELSE s

\* str.strip()
Strip(s) == RStrip(LStrip(s))

\* t.startswith(p)
StartsWith(t, p) == Len(p) <= Len(t) /\ SubSeq(t, 1, Len(p)) = p

\* w in t  (substring test; the empty string is in every string)
Contains(t, w) ==
    \E i \in 1..(Len(t) + 1) :
        i + Len(w) - 1 <= Len(t) /\ SubSeq(t, i, i + Len(w) - 1) = w

\* The characters the model uses, in code-point order (str comparison)
CodePoints == <<"\t", " ", "-", ".", "/">> \o DigitSeq
              \o SubSeq(UpperChars, 1, 26) \o <<"_">> \o SubSeq(LowerChars, 1, 26)
              \o SubSeq(UpperChars, 27, 32) \o SubSeq(LowerChars, 27, 32)

\* a < b for two str
RECURSIVE StrLess(_, _)
StrLess(a, b) ==
    IF b = <<>> THEN FALSE
    ELSE IF a = <<>> THEN TRUE
    ELSE IF Head(a) = Head(b) THEN StrLess(Tail(a), Tail(b))
    ELSE IndexOf(CodePoints, Head(a)) < IndexOf(CodePoints, Head(b))

\* The distinct values of seq, in order of first appearance
RECURSIVE Distinct(_)
Distinct(seq) ==
    IF seq = <<>> THEN <<>>
    ELSE IF seq[Len(seq)] \in Range(SubSeq(seq, 1, Len(seq) - 1))
    THEN Distinct(SubSeq(seq, 1, Len(seq) - 1))
    ELSE Distinct(SubSeq(seq, 1, Len(seq) - 1)) \o <<seq[Len(seq)]>>

\* sorted(S) for a set of integers
RECURSIVE SortedSeq(_)
SortedSeq(S) ==
    IF S = {} THEN <<>>
    ELSE <<CHOOSE x \in S : \A y \in S : x <= y>>
            \o SortedSeq(S \ {CHOOSE x \in S : \A y \in S : x <= y})

Max2(a, b) == IF a >= b THEN a ELSE b

Min2(a, b) == IF a <= b THEN a ELSE b

\* ------------------------------------------------------------- RUT helpers
PyNone == [isStr |-> FALSE, s |-> <<>>]

PyStr(s) == [isStr |-> TRUE, s |-> s]

\* astype(str) of a cell: None/NaN becomes a str too
AsStr(cell) == IF cell.isStr THEN cell.s ELSE <<"n","a","n">>

\* _RUT_CLEAN_RE.sub("", s): drops everything but digits and k/K
RutClean(s) == SelectSeq(s, LAMBDA c : c \in Range(DigitSeq) \cup {"k", "K"})

\* ^\d{6,9}-[0-9Kk]$ on a string without surrounding whitespace
RutValueMatchStripped(t) ==
    /\ Len(t) >= 8
    /\ Len(t) <= 11
    /\ \A i \in 1..(Len(t) - 2) : t[i] \in Range(DigitSeq)
    /\ t[Len(t) - 1] = "-"
    /\ t[Len(t)] \in Range(DigitSeq) \cup {"K", "k"}

\* _RUT_VALUE_RE.match(s):  ^\s*\d{6,9}-[0-9Kk]\s*$
RutValueMatch(s) == RutValueMatchStripped(Strip(s))

\* return s if _RUT_VALUE_RE.match(s) else ""
RutChecked(s) == IF RutValueMatch(s) THEN s ELSE <<>>

\* A plausible slip: the check digit is not uppercased.
RutSplit_NoUpper(s) == RutChecked(SubSeq(s, 1, Len(s) - 1) \o <<"-", s[Len(s)]>>)

\* s = f"{s[:-1]}-{s[-1].upper()}" and the final match
RutSplit(s) == RutChecked(SubSeq(s, 1, Len(s) - 1) \o <<"-", UpperChar(s[Len(s)])>>)

\* if len(s) < 2: return ""
RutFromClean(s) == IF Len(s) < 2 THEN <<>> ELSE RutSplit(s)

\* if not s: return "";  s = _RUT_CLEAN_RE.sub("", s)
RutFromStripped(s) == IF s = <<>> THEN <<>> ELSE RutFromClean(RutClean(s))

normalize_rut_value(x) == IF ~x.isStr THEN <<>> ELSE RutFromStripped(Strip(x.s))

\* normalize_rut_series on one cell that is a str already
normalize_rut_cell(s) == normalize_rut_value(PyStr(s))

\* ".".join of the groups of three digits, counted from the right
RECURSIVE GroupThousands(_)
GroupThousands(num) ==
    IF Len(num) <= 3 THEN num
    ELSE GroupThousands(SubSeq(num, 1, Len(num) - 3))
            \o <<".">> \o SubSeq(num, Len(num) - 2, Len(num))

\* A plausible slip: num = s, the check digit stays in the number.
FormatClean_KeepsCheckDigit(rut, s) ==
    IF Len(s) < 2 THEN rut
    ELSE GroupThousands(s) \o <<"-", UpperChar(s[Len(s)])>>

\* if len(s) < 2: return str(rut);  dv, num, the groups, f"{num_fmt}-{dv}"
FormatClean(rut, s) ==
    IF Len(s) < 2 THEN rut
    ELSE GroupThousands(SubSeq(s, 1, Len(s) - 1)) \o <<"-", UpperChar(s[Len(s)])>>

\* format_rut on a str
format_rut(rut) == FormatClean(rut, RutClean(rut))

\* --------------------------------------------------- activity classification
\* [w.lower() for w in cfg["availability"].get(key, [])]
CfgList(cfg, key) == [i \in 1..Len(cfg.availability[key]) |-> StrLower(cfg.availability[key][i])]

\* The checks after the whitelist: every one of them returns 0
FlagAfterWhitelist(t, cfg) ==
    IF \E p \in Range(CfgList(cfg, "blacklist_prefixes")) : StartsWith(t, p) THEN 0
    ELSE IF \E w \in Range(CfgList(cfg, "blacklist_exact")) : w = t THEN 0
    ELSE IF \E w \in Range(CfgList(cfg, "neutral_keywords")) : Contains(t, w) THEN 0
    ELSE 0

\* A plausible slip: the blacklist prefixes are tested before the whitelist.
FlagOfLowered_BlacklistFirst(t, cfg) ==
    IF \E p \in Range(CfgList(cfg, "blacklist_prefixes")) : StartsWith(t, p) THEN 0
    ELSE IF \E w \in Range(CfgList(cfg, "whitelist_keywords")) : Contains(t, w) THEN 1
    ELSE 0

\* t = text.strip().lower() and the ordered checks on it
FlagOfLowered(t, cfg) ==
    IF \E w \in Range(CfgList(cfg, "whitelist_keywords")) : Contains(t, w) THEN 1
    ELSE FlagAfterWhitelist(t, cfg)

classify_activity_flag(text, cfg) ==
    IF ~text.isStr \/ text.s = <<>> THEN 0
    ELSE FlagOfLowered(StrLower(Strip(text.s)), cfg)

\* ------------------------------------------------------------------ streaks
\* A plausible slip: the run counter is not reset after a gap.
RECURSIVE StreakLoop_NoReset(_, _, _, _)
StreakLoop_NoReset(dates, i, cur, best) ==
    IF i > Len(dates) THEN best
    ELSE IF dates[i] = dates[i - 1] + 1
         THEN StreakLoop_NoReset(dates, i + 1, cur + 1, Max2(best, cur + 1))
         ELSE StreakLoop_NoReset(dates, i + 1, cur, best)

max_consecutive_days_NoReset(dates_sorted) ==
    IF dates_sorted = <<>> THEN 0 ELSE StreakLoop_NoReset(dates_sorted, 2, 1, 1)

\* The loop of _max_consecutive_days from index i on, with its two counters
RECURSIVE StreakLoop(_, _, _, _)
StreakLoop(dates, i, cur, best) ==
    IF i > Len(dates) THEN best
    ELSE IF dates[i] = dates[i - 1] + 1
         THEN StreakLoop(dates, i + 1, cur + 1, Max2(best, cur + 1))
         ELSE StreakLoop(dates, i + 1, 1, best)

max_consecutive_days(dates_sorted) ==
    IF dates_sorted = <<>> THEN 0 ELSE StreakLoop(dates_sorted, 2, 1, 1)

\* ------------------------------------------------------------------ calendar
\* The months the model's dates lie in: year, month, number of days, and the
\* ordinal of the first day.
MonthTable == << [y |-> 2023, m |-> 12, len |-> 31, first |-> 0 - 30],
                 [y |-> 2024, m |-> 1,  len |-> 31, first |-> 1],
                 [y |-> 2024, m |-> 2,  len |-> 29, first |-> 32],
                 [y |-> 2024, m |-> 3,  len |-> 31, first |-> 61] >>

MonthOf(date) ==
    MonthTable[CHOOSE i \in 1..Len(MonthTable) :
                  /\ MonthTable[i].first <= date
                  /\ date < MonthTable[i].first + MonthTable[i].len]

\* date.day
DayOfMonth(date) == date - MonthOf(date).first + 1

\* date.replace(day = d)
ReplaceDay(date, d) == MonthOf(date).first + d - 1

DigitVal(c) == IndexOf(DigitSeq, c) - 1

NaT == [ok |-> FALSE, date |-> 0]

\* The date of day d of a month of the table, NaT when there is no such day
DateInMonths(months, d) ==
    IF months = {} THEN NaT
    ELSE [ok |-> TRUE, date |-> MonthTable[CHOOSE i \in months : TRUE].first + d - 1]

DateOfYMD(y, m, d) ==
    DateInMonths({i \in 1..Len(MonthTable) :
                    /\ MonthTable[i].y = y /\ MonthTable[i].m = m
                    /\ 1 <= d /\ d <= MonthTable[i].len}, d)

IsIsoText(s) ==
    /\ Len(s) = 10
    /\ s[5] = "-" /\ s[8] = "-"
    /\ \A i \in {1, 2, 3, 4, 6, 7, 9, 10} : s[i] \in Range(DigitSeq)

DateOfIso(s) ==
    DateOfYMD(1000 * DigitVal(s[1]) + 100 * DigitVal(s[2]) + 10 * DigitVal(s[3])
                + DigitVal(s[4]),
              10 * DigitVal(s[6]) + DigitVal(s[7]),
              10 * DigitVal(s[9]) + DigitVal(s[10]))

\* A date cell parsed: text "YYYY-MM-DD" of a day of the table gives
\* [ok |-> TRUE, date |-> its ordinal]; None, NaN and any other text give NaT
\* (pd.to_datetime(..., errors="coerce"), and _parse_date_safe's None).
ParseDate(cell) == IF cell.isStr /\ IsIsoText(cell.s) THEN DateOfIso(cell.s) ELSE NaT

\* --------------------------------------------------------- dataset normalizer
ColColaborador == <<"C","o","l","a","b","o","r","a","d","o","r">>

ColDepartamento == <<"D","e","p","a","r","t","a","m","e","n","t","o">>

ColRUT == <<"R","U","T">>

ColCiudad == <<"C","i","u","d","a","d"," ","R","e","s","i","d","e","n","c","i","a">>

ColFecha == <<"f","e","c","h","a">>

ColActividad == <<"a","c","t","i","v","i","d","a","d">>

ColDispFlag == <<"d","i","s","p","_","f","l","a","g">>

ColRutFmt == <<"R","U","T","_","f","m","t">>

EXPECTED_COLS ==
    <<ColColaborador, ColDepartamento, ColRUT, ColCiudad, ColFecha, ColActividad>>

TextCols == {ColColaborador, ColDepartamento, ColRUT, ColCiudad, ColActividad}

\* A table: column names in order, and rows.  The rows of the file as read
\* are sequences of cells, one per column; the rows of a normalized table are
\* functions from column name to value.
EmptyTable == [cols |-> <<>>, rows |-> <<>>]

\* re.sub(r"\s+", " ", s)
RECURSIVE CollapseWs(_)
CollapseWs(s) ==
    IF s = <<>> THEN <<>>
    ELSE IF IsSpace(Head(s)) THEN <<" ">> \o CollapseWs(LStrip(s))
    ELSE <<Head(s)>> \o CollapseWs(Tail(s))

\* .replace("á","a") ... .replace("ñ","n"): the lowercase accented letters
FoldChar(c) ==
    IF c \in {"a'", "e'", "i'", "n~", "o'", "u'"}
    THEN <<"a", "e", "i", "n", "o", "u">>[IndexOf(LowerChars, c) - 26]
    ELSE c

FoldAccents(s) == [i \in 1..Len(s) |-> FoldChar(s[i])]

\* norm() of _normalize_columns
HeaderNorm(s) == FoldAccents(CollapseWs(StrLower(Strip(s))))

\* ---------------------------------------------------------- load_valid_ruts
\* The allow-list CSV as read_csv(dtype=str, header=0) gives it: columns in
\* file order, each with its header h and its cells (None where the file has
\* nothing); "BOM" is the byte-order mark as one character.
RutsColumn(h, cells) == [h |-> h, cells |-> cells]

\* _strip_bom
StripBom(s) == SelectSeq(s, LAMBDA c : c # "BOM")

\* norm_name of load_valid_ruts
NormName(c) == CollapseWs(FoldAccents(Strip(StrLower(StripBom(c)))))

KnownRutNames ==
    {<<"r","u","t">>, <<"r","u","t","s">>, <<"r","u","t"," ","v","a","l","i","d","o">>,
     <<"r","u","t","s"," ","v","a","l","i","d","o","s">>}

\* norm_probe of _score_rut_column: the hyphen before the last character
NormProbe(s2) ==
    IF Len(s2) >= 2 THEN SubSeq(s2, 1, Len(s2) - 1) \o <<"-", s2[Len(s2)]>> ELSE s2

\* series.dropna().astype(str)
DropNa(cells) == SelectSeq(cells, LAMBDA x : x.isStr)

\* A score as the fraction num / den; 0.0 is 0 / 1
Score(num, den) == [num |-> num, den |-> den]

\* A plausible slip: the matches are counted over all rows, nulls included.
score_rut_column_OverAllRows(cells) ==
    IF Len(DropNa(cells)) = 0 THEN Score(0, 1)
    ELSE Score(Len(SelectSeq(DropNa(cells),
                             LAMBDA x : RutValueMatch(NormProbe(RutClean(x.s))))),
               Len(cells))

\* _score_rut_column: matches.mean() over the non-null values
score_rut_column(cells) ==
    IF Len(DropNa(cells)) = 0 THEN Score(0, 1)
    ELSE Score(Len(SelectSeq(DropNa(cells),
                             LAMBDA x : RutValueMatch(NormProbe(RutClean(x.s))))),
               Len(DropNa(cells)))

\* a > b for two scores
ScoreGreater(a, b) == a.num * b.den > b.num * a.den

\* The loop over df.columns from column i on: best_col (0 is None) and
\* best_score so far; "if score > best_score" keeps the earlier column on a tie
RECURSIVE BestColumn(_, _, _, _)
BestColumn(cols, i, best_col, best_score) ==
    IF i > Len(cols) THEN [col |-> best_col, score |-> best_score]
    ELSE IF ScoreGreater(score_rut_column(cols[i].cells), best_score)
         THEN BestColumn(cols, i + 1, i, score_rut_column(cols[i].cells))
         ELSE BestColumn(cols, i + 1, best_col, best_score)

\* col = best_col if best_col is not None and best_score >= 0.2 else df.columns[0]
ColumnOfBest(best) ==
    IF best.col # 0 /\ 5 * best.score.num >= best.score.den THEN best.col ELSE 1

\* by_name, as indexes of columns
ByName(cols) == SelectSeq([i \in 1..Len(cols) |-> i], LAMBDA i : NormName(cols[i].h) \in KnownRutNames)

\* The column load_valid_ruts reads the IDs from
RutsColumnIndex(cols) ==
    IF ByName(cols) # <<>> THEN ByName(cols)[1]
    ELSE ColumnOfBest(BestColumn(cols, 1, 0, Score(0, 1)))

\* out: the non-empty normalize_rut_value of the non-null values of the column
RutsOfColumn(cells) ==
    {normalize_rut_value(x) : x \in Range(DropNa(cells))} \ {<<>>}

\* load_valid_ruts(path) on a file that exists and has rows
load_valid_ruts(cols) == RutsOfColumn(cols[RutsColumnIndex(cols)].cells)

\* The if / elif chain that fills colmap; an unmapped header c passes through
MapNormed(c, nc) ==
    IF nc = <<"c","o","l","a","b","o","r","a","d","o","r">> THEN ColColaborador
    ELSE IF nc = <<"d","e","p","a","r","t","a","m","e","n","t","o">> THEN ColDepartamento
    ELSE IF nc = <<"r","u","t">> THEN ColRUT
    ELSE IF Contains(nc, <<"c","i","u","d","a","d">>) /\ Contains(nc, <<"r","e","s","i","d","e","n","c">>) THEN ColCiudad
    ELSE IF nc = <<"f","e","c","h","a">> THEN ColFecha
    ELSE IF nc = <<"a","c","t","i","v","i","d","a","d">> THEN ColActividad
    ELSE c

MapHeader(c) == MapNormed(c, HeaderNorm(c))

\* df.rename(columns=colmap)
RenameCols(raw) ==
    [cols |-> [i \in 1..Len(raw.cols) |-> MapHeader(raw.cols[i])], rows |-> raw.rows]

\* The positions of the columns named c
ColIdxs(cols, c) == SelectSeq([i \in 1..Len(cols) |-> i], LAMBDA i : cols[i] = c)

\* The positions whose name is neither RUT nor the name of an earlier position
KeptIdxs(cols) ==
    SelectSeq([i \in 1..Len(cols) |-> i],
              LAMBDA i : cols[i] # ColRUT /\ \A j \in 1..(i - 1) : cols[j] # cols[i])

\* A plausible slip: the mask is taken on aux, so a later populated column
\* overwrites the base.
RECURSIVE CollapseRut_LastWins(_, _, _)
CollapseRut_LastWins(row, idxs, base) ==
    IF idxs = <<>> THEN base
    ELSE IF ~row[Head(idxs)].isStr \/ Strip(AsStr(row[Head(idxs)])) = <<>>
    THEN CollapseRut_LastWins(row, Tail(idxs), base)
    ELSE CollapseRut_LastWins(row, Tail(idxs), row[Head(idxs)])

\* mask = base.isna() | (base.astype(str).str.strip() == ""); base.where(~mask, aux)
RECURSIVE CollapseRut(_, _, _)
CollapseRut(row, idxs, base) ==
    IF idxs = <<>> THEN base
    ELSE IF ~base.isStr \/ Strip(AsStr(base)) = <<>>
    THEN CollapseRut(row, Tail(idxs), row[Head(idxs)])
    ELSE CollapseRut(row, Tail(idxs), base)

CollapseWith(t, idxs, keep) ==
    [cols |-> [k \in 1..Len(keep) |-> t.cols[keep[k]]] \o <<ColRUT>>,
     rows |-> [r \in 1..Len(t.rows) |->
                 [k \in 1..Len(keep) |-> t.rows[r][keep[k]]]
                   \o <<PyStr(normalize_rut_cell(AsStr(
                          CollapseRut(t.rows[r], Tail(idxs), t.rows[r][Head(idxs)]))))>>]]

\* _collapse_duplicate_rut_columns: every column named RUT is dropped, the
\* merged and normalized one is appended, then duplicated names are removed.
collapse_duplicate_rut_columns(t) ==
    IF Len(ColIdxs(t.cols, ColRUT)) <= 1 THEN t
    ELSE CollapseWith(t, ColIdxs(t.cols, ColRUT), KeptIdxs(t.cols))

\* One cell of the normalized table, before the date filter: text columns
\* stripped, RUT normalized, fecha parsed, any other column as it was.
NormalizeCell(c, cell) ==
    IF c = ColRUT THEN normalize_rut_cell(Strip(AsStr(cell)))
    ELSE IF c \in TextCols THEN Strip(AsStr(cell))
    ELSE IF c = ColFecha THEN ParseDate(cell)
    ELSE cell

NormalizeRow(cols, row) == [c \in Range(cols) |-> NormalizeCell(c, row[IndexOf(cols, c)])]

\* d.dropna(subset=["fecha"]): a row whose fecha is NaT goes
DropNaT(rows) == SelectSeq(rows, LAMBDA r : r[ColFecha].ok)

\* d["fecha"] = pd.to_datetime(...).dt.date of the rows kept
DateOnly(rows) == [i \in 1..Len(rows) |-> [rows[i] EXCEPT ![ColFecha] = @.date]]

NormalizedTable(d) ==
    [cols |-> d.cols,
     rows |-> DateOnly(DropNaT([r \in 1..Len(d.rows) |-> NormalizeRow(d.cols, d.rows[r])]))]

\* missing = [c for c in _EXPECTED_COLS if c not in d.columns]
MissingCols(d) == SelectSeq(EXPECTED_COLS, LAMBDA c : c \notin Range(d.cols))

\* What load_dataset gives: err is "none", or the exception raised, or "None"
\* when it returns None.
Loaded(err, missing, detected, df) ==
    [err |-> err, missing |-> missing, detected |-> detected, df |-> df]

\* The missing-columns check and the normalization after it.  A required
\* column that occurs twice makes d[c] a table, and .str raises on it.
CheckedTable(d) ==
    IF MissingCols(d) # <<>>
    THEN Loaded("ValueError", MissingCols(d), d.cols, EmptyTable)
    ELSE IF \E c \in Range(EXPECTED_COLS) : Len(ColIdxs(d.cols, c)) > 1
    THEN Loaded("AttributeError", <<>>, d.cols, EmptyTable)
    ELSE Loaded("none", <<>>, d.cols, NormalizedTable(d))

\* _normalize_columns; _collapse_duplicate_rut_columns changes nothing unless
\* more than one column is named RUT
normalize_columns(raw) == CheckedTable(collapse_duplicate_rut_columns(RenameCols(raw)))

\* load_dataset(csv_file = ...): _read_csv_robust gives no table with fewer
\* than five columns, and then load_dataset returns None.
load_dataset(raw) ==
    IF Len(raw.cols) < 5 THEN Loaded("None", <<>>, <<>>, EmptyTable)
    ELSE normalize_columns(raw)

\* load_dataset(csv_url = ...), raw being the table the URL serves: the
\* download, the read and _normalize_columns run inside try / except
\* Exception, which turns whatever is raised into df = None.
load_dataset_from_url(raw) ==
    IF load_dataset(raw).err = "none" THEN load_dataset(raw)
    ELSE Loaded("None", <<>>, <<>>, EmptyTable)

\* ------------------------------------------------------------ configuration
DEFAULT_CFG ==
    [availability |->
        [whitelist_keywords |-> << <<"d","i","s","p","o","n","i","b","l","e">> >>,
         blacklist_prefixes |-> << <<"s","e","r","-">>, <<"c","o","n","-">>, <<"l","a","b","-">> >>,
         blacklist_exact    |-> << <<"d","e","s","c","a","n","s","o">>, <<"v","a","c","a","c","i","o","n","e","s">>, <<"l","i","c","e","n","c","i","a"," ","m","e'","d","i","c","a">>,
                                   <<"l","i","c","e","n","c","i","a"," ","m","e","d","i","c","a">>, <<"d","e","s","c","a","n","s","o"," ","e","n"," ","z","o","n","a">> >>,
         neutral_keywords   |-> << <<"o","f","i","c","i","n","a">>, <<"a","c","t","i","v","i","d","a","d"," ","i","n","t","e","r","n","a">>, <<"t","e","l","e","t","r","a","b","a","j","o">>,
                                   <<"c","a","p","a","c","i","t","a","c","i","o","n">>, <<"c","a","p","a","c","i","t","a","c","i","o'","n">>, <<"a","c","a","d","e","m","i","a">>,
                                   <<"c","a","p","a","c","i","t","a","c","i","o","n","e","s"," ","p","r","e","s","e","n","c","i","a","l","e","s">>, <<"o","f","i","c","i","n","a"," ","c","e","n","t","r","a","l">>,
                                   <<"o","f","i","c","i","n","a"," ","c","e","n","t","r","a","l"," ","s","u","c","r","e">> >>],
     rules   |-> [high_days |-> 7, high_streak |-> 3, low_days |-> 4],
     filters |-> [allowed_departments |-> << <<"O","P","E","R">>, <<"O","P","E","R","_","O","F">> >>]]

\* A config.yml on disk, as far as load_config reads the filters and the
\* availability of it:
\* exists: the path exists; filters: the top-level key "filters" is "absent",
\* has no value ("null": yaml gives None) or is a mapping ("section");
\* has_allowed: the mapping has the key allowed_departments, of value
\* allowed_departments; availability: the top-level key "availability" is
\* given or not, and when given its mapping is lists, a function from the
\* option names it sets to their lists. The file sets no other key.
NoSection == [given |-> FALSE, lists |-> <<>>]

Section(lists) == [given |-> TRUE, lists |-> lists]

ConfigFile(exists, filters, has_allowed, allowed_departments) ==
    [exists |-> exists, filters |-> filters, has_allowed |-> has_allowed,
     allowed_departments |-> allowed_departments, availability |-> NoSection]

NoConfigFile == ConfigFile(FALSE, "absent", FALSE, <<>>)

WithAvailability(file, section) == [file EXCEPT !.availability = section]

Config(err, cfg) == [err |-> err, cfg |-> cfg]

AvailabilityKeys ==
    {"whitelist_keywords", "blacklist_prefixes", "blacklist_exact", "neutral_keywords"}

\* out["availability"] after out.update(cfg): the mapping of the file when it
\* has one, in which an option the file does not set is missing and read as
\* [] by classify_activity_flag (.get(key, [])); the default mapping otherwise
AvailabilityOfFile(file) ==
    IF file.availability.given
    THEN [k \in AvailabilityKeys |->
             IF k \in DOMAIN file.availability.lists THEN file.availability.lists[k]
             ELSE <<>>]
    ELSE DEFAULT_CFG.availability

\* out["filters"] after out.update(cfg): the mapping of the file when it has
\* one (without allowed_departments it reads as the empty list in
\* _apply_filters), the default mapping otherwise
FiltersOfFile(file) ==
    IF file.filters = "absent" THEN DEFAULT_CFG.filters
    ELSE [allowed_departments |->
             IF file.has_allowed THEN file.allowed_departments ELSE <<>>]

\* load_config(path): the defaults when the path does not exist; otherwise
\* out = _DEFAULT_CFG.copy(); out.update(cfg), so that every section of the
\* file takes the place of the default one, and the later
\* out[section].update(cfg[section]) updates the file's mapping with itself;
\* a file with "filters:" and no value makes out["filters"] None, and
\* out["filters"].update(...) raises AttributeError. No branch writes into
\* _DEFAULT_CFG or into a mapping of it.
load_config(file) ==
    IF ~file.exists THEN Config("none", DEFAULT_CFG)
    ELSE IF file.filters = "null" THEN Config("AttributeError", DEFAULT_CFG)
    ELSE Config("none", [availability |-> AvailabilityOfFile(file),
                         rules |-> DEFAULT_CFG.rules,
                         filters |-> FiltersOfFile(file)])

\* ------------------------------------------------------------- classify_all
ColDiasVentana == <<"d","i","a","s","_","v","e","n","t","a","n","a">>

ColDiasDisponibles == <<"d","i","a","s","_","d","i","s","p","o","n","i","b","l","e","s">>

ColPorcDisponible == <<"p","o","r","c","_","d","i","s","p","o","n","i","b","l","e">>

ColStreakMax == <<"s","t","r","e","a","k","_","m","a","x">>

ColCriticidad == <<"c","r","i","t","i","c","i","d","a","d">>

ALTA == <<"A","L","T","A">>

MEDIA == <<"M","E","D","I","A">>

BAJA == <<"B","A","J","A">>

ResumenCols ==
    <<ColRUT, ColColaborador, ColDepartamento, ColCiudad, ColDiasVentana,
      ColDiasDisponibles, ColPorcDisponible, ColStreakMax, ColCriticidad>>

DetalleCols ==
    <<ColColaborador, ColDepartamento, ColRUT, ColCiudad, ColFecha, ColActividad,
      ColDispFlag>>

\* allowed = [str(x).upper() for x in ...allowed_departments]
AllowedDepartments(cfg) == {StrUpper(x) : x \in Range(cfg.filters.allowed_departments)}

\* out[out["Departamento_UP"].isin(allowed)]
FilterDepartments(df, allowed) ==
    IF allowed # {} /\ ColDepartamento \in Range(df.cols)
    THEN [cols |-> df.cols,
          rows |-> SelectSeq(df.rows,
                             LAMBDA r : Strip(StrUpper(r[ColDepartamento])) \in allowed)]
    ELSE df

\* _apply_filters
apply_filters(df, cfg) == FilterDepartments(df, AllowedDepartments(cfg))

\* date_range: None, or (start, end)
NoRange == [given |-> FALSE, start |-> 0, end |-> 0]

DateRange(a, b) == [given |-> TRUE, start |-> a, end |-> b]

\* (d["fecha"] >= start) & (d["fecha"] <= end)
InWindow(fecha, start, end) == fecha >= start /\ fecha <= end

Fechas(rows) == [i \in 1..Len(rows) |-> rows[i][ColFecha]]

SeqMin(seq) == CHOOSE x \in Range(seq) : \A y \in Range(seq) : x <= y

SeqMax(seq) == CHOOSE x \in Range(seq) : \A y \in Range(seq) : x >= y

\* start: of date_range, else d["fecha"].min(), else dt.date.today()
WindowStart(rows, date_range, today) ==
    IF date_range.given THEN date_range.start
    ELSE IF rows # <<>> THEN SeqMin(Fechas(rows)) ELSE today

\* A plausible slip: the inferred window ends at the earliest date.
WindowEnd_EarliestDate(rows, date_range, today) ==
    IF date_range.given THEN date_range.end
    ELSE IF rows # <<>> THEN SeqMin(Fechas(rows)) ELSE today

\* end: of date_range, else d["fecha"].max(), else dt.date.today()
WindowEnd(rows, date_range, today) ==
    IF date_range.given THEN date_range.end
    ELSE IF rows # <<>> THEN SeqMax(Fechas(rows)) ELSE today

\* d.loc[mask] when a date_range is given
WindowRows(rows, date_range) ==
    IF date_range.given
    THEN SelectSeq(rows, LAMBDA r : InWindow(r[ColFecha], date_range.start, date_range.end))
    ELSE rows

\* math.ceil(a / 30.0) and math.floor(a / 30.0) for an integer a
Ceil30(a) == 0 - ((0 - a) \div 30)

Floor30(a) == a \div 30

\* A plausible slip: the scaled high-days threshold is rounded down.
ScaledThresholds_FloorHigh(base_high, base_low, base_streak, window_days) ==
    IF window_days >= 30
    THEN [th_high_days |-> base_high, th_low_days |-> base_low, th_streak |-> base_streak]
    ELSE [th_high_days |-> Max2(1, Floor30(base_high * window_days)),
          th_low_days  |-> Max2(0, Floor30(base_low * window_days)),
          th_streak    |-> Min2(base_streak, window_days)]

\* A plausible slip: the ratio is upside down, 30 / window_days.
ScaledThresholds_InverseRatio(base_high, base_low, base_streak, window_days) ==
    IF window_days >= 30
    THEN [th_high_days |-> base_high, th_low_days |-> base_low, th_streak |-> base_streak]
    ELSE [th_high_days |-> Max2(1, 0 - ((0 - base_high * 30) \div window_days)),
          th_low_days  |-> Max2(0, (base_low * 30) \div window_days),
          th_streak    |-> Min2(base_streak, window_days)]

\* if window_days >= 30: ... else: ...
ScaledThresholds(base_high, base_low, base_streak, window_days) ==
    IF window_days >= 30
    THEN [th_high_days |-> base_high, th_low_days |-> base_low, th_streak |-> base_streak]
    ELSE [th_high_days |-> Max2(1, Ceil30(base_high * window_days)),
          th_low_days  |-> Max2(0, Floor30(base_low * window_days)),
          th_streak    |-> Min2(base_streak, window_days)]

\* A plausible slip: the configured rules are used without max(1, ...) and
\* max(0, ...).
Thresholds_NoClamp(rules, window_days) ==
    ScaledThresholds(rules.high_days, rules.low_days, rules.high_streak, window_days)

\* The thresholds classify_all applies to a window of window_days days
Thresholds(rules, window_days) ==
    ScaledThresholds(Max2(1, rules.high_days), Max2(0, rules.low_days),
                     Max2(1, rules.high_streak), window_days)

\* A plausible slip: the LOW test comes before the HIGH test.
Criticidad_LowFirst(dias_disponibles, streak_max, th) ==
    IF dias_disponibles <= th.th_low_days THEN BAJA
    ELSE IF dias_disponibles >= th.th_high_days \/ streak_max >= th.th_streak THEN ALTA
    ELSE MEDIA

\* The if / elif / else that assigns criticidad
Criticidad(dias_disponibles, streak_max, th) ==
    IF dias_disponibles >= th.th_high_days \/ streak_max >= th.th_streak THEN ALTA
    ELSE IF dias_disponibles <= th.th_low_days THEN BAJA
    ELSE MEDIA

\* Rounding of thousandths q with remainder r of den to tenths, ties to even
RoundTenths(q, r, den) ==
    IF 2 * r > den \/ (2 * r = den /\ q % 2 = 1) THEN q + 1 ELSE q

\* round(num / den * 100.0, 1) in tenths of a percent (26.7 is 267)
PorcTenths(num, den) == RoundTenths((num * 1000) \div den, (num * 1000) % den, den)

\* d.sort_values(["RUT", "fecha"]): a stable insertion sort on that key
RowLess(a, b) ==
    \/ StrLess(a[ColRUT], b[ColRUT])
    \/ a[ColRUT] = b[ColRUT] /\ a[ColFecha] < b[ColFecha]

RECURSIVE InsertRow(_, _)
InsertRow(sorted, x) ==
    IF sorted = <<>> THEN <<x>>
    ELSE IF RowLess(x, sorted[Len(sorted)])
         THEN InsertRow(SubSeq(sorted, 1, Len(sorted) - 1), x) \o <<sorted[Len(sorted)]>>
         ELSE sorted \o <<x>>

RECURSIVE SortRows(_)
SortRows(rows) ==
    IF rows = <<>> THEN <<>>
    ELSE InsertRow(SortRows(SubSeq(rows, 1, Len(rows) - 1)), rows[Len(rows)])

\* map_crit, and fillna(99)
CritOrden(c) == IF c = ALTA THEN 0 ELSE IF c = MEDIA THEN 1 ELSE IF c = BAJA THEN 2 ELSE 99

\* A plausible slip: ascending=[False, ...], LOW rows come first.
ResumenKey_CritDescending(a) ==
    <<0 - CritOrden(a[ColCriticidad]), 0 - a[ColDiasDisponibles],
      0 - a[ColStreakMax], 0 - a[ColPorcDisponible]>>

\* The sort key of the summary: criticidad_orden ascending, then
\* dias_disponibles, streak_max and porc_disponible descending
ResumenKey(a) ==
    <<CritOrden(a[ColCriticidad]), 0 - a[ColDiasDisponibles],
      0 - a[ColStreakMax], 0 - a[ColPorcDisponible]>>

ResumenLess(a, b) ==
    \E i \in 1..4 : /\ ResumenKey(a)[i] < ResumenKey(b)[i]
                    /\ \A j \in 1..(i - 1) : ResumenKey(a)[j] = ResumenKey(b)[j]

RECURSIVE InsertResumen(_, _)
InsertResumen(sorted, x) ==
    IF sorted = <<>> THEN <<x>>
    ELSE IF ResumenLess(x, sorted[Len(sorted)])
         THEN InsertResumen(SubSeq(sorted, 1, Len(sorted) - 1), x)
                \o <<sorted[Len(sorted)]>>
         ELSE sorted \o <<x>>

\* resumen.sort_values([...], ascending=[True, False, False, False]): stable
RECURSIVE SortResumen(_)
SortResumen(rows) ==
    IF rows = <<>> THEN <<>>
    ELSE InsertResumen(SortResumen(SubSeq(rows, 1, Len(rows) - 1)), rows[Len(rows)])

\* The injected classifier: none, one whose predict_flags raises, or one whose
\* predict_flags returns the flag f for every text.
MlNone == [kind |-> "none", flag |-> 0]

MlRaises == [kind |-> "raises", flag |-> 0]

MlConst(f) == [kind |-> "const", flag |-> f]

\* An ActivityClassifier of agent.ml whose predict_available labels every
\* text f. The class has no predict_flags: ml.predict_flags raises
\* AttributeError, which classify_all catches like any other exception.
MlActivityClassifier(f) == [kind |-> "activity_classifier", flag |-> f]

\* d["actividad"].astype(str).map(lambda x: classify_activity_flag(x, cfg))
RuleFlags(rows, cfg) ==
    [i \in 1..Len(rows) |-> classify_activity_flag(PyStr(rows[i][ColActividad]), cfg)]

\* A plausible slip: after predict_flags raises, the rows get flag 0.
DispFlags_NoFallback(rows, cfg, ml) ==
    IF ml.kind = "const" THEN [i \in 1..Len(rows) |-> ml.flag]
    ELSE IF ml.kind = "raises" THEN [i \in 1..Len(rows) |-> 0]
    ELSE RuleFlags(rows, cfg)

\* The disp_flag column: predict_flags when a classifier is injected and does
\* not raise, the rule-based flags otherwise.
DispFlags(rows, cfg, ml) ==
    IF ml.kind = "const" THEN [i \in 1..Len(rows) |-> ml.flag]
    ELSE RuleFlags(rows, cfg)

\* d["disp_flag"] = flags
Flagged(cols, rows, flags) ==
    [i \in 1..Len(rows) |->
        [c \in Range(cols) \cup {ColDispFlag} |->
            IF c = ColDispFlag THEN flags[i] ELSE rows[i][c]]]

Meta(start, end, th_high_days, th_low_days, th_streak, window_days, rules) ==
    [rango |-> <<start, end>>,
     umbrales |-> [th_high_days |-> th_high_days, th_low_days |-> th_low_days,
                   th_streak |-> th_streak, window_days |-> window_days,
                   base_rules |-> rules]]

\* What classify_all returns: resumen, detalle, meta; err is "none" or the
\* exception raised; mlCalls counts the calls of ml.predict_flags.
Result(err, resumen, detalle, meta, mlCalls) ==
    [err |-> err, resumen |-> resumen, detalle |-> detalle, meta |-> meta,
     mlCalls |-> mlCalls]

NoResult ==
    Result("none", EmptyTable, EmptyTable, Meta(0, 0, 0, 0, 0, 0, DEFAULT_CFG.rules), 0)

\* A plausible slip: the rows are counted, not their distinct dates.
AvailableDates_PerRow(g) == Fechas(SelectSeq(g, LAMBDA r : r[ColDispFlag] = 1))

\* sorted(g.loc[g["disp_flag"] == 1, "fecha"].dropna().unique().tolist())
AvailableDates(g) ==
    SortedSeq({g[i][ColFecha] : i \in {j \in 1..Len(g) : g[j][ColDispFlag] = 1}})

\* rows.append({...})
SummaryFields(rut, first, dias_disponibles, streak_max, th, window_days) ==
    [c \in Range(ResumenCols) |->
        IF c = ColRUT THEN rut
        ELSE IF c \in {ColColaborador, ColDepartamento, ColCiudad} THEN first[c]
        ELSE IF c = ColDiasVentana THEN window_days
        ELSE IF c = ColDiasDisponibles THEN dias_disponibles
        ELSE IF c = ColPorcDisponible
             THEN IF window_days > 0 THEN PorcTenths(dias_disponibles, window_days) ELSE 0
        ELSE IF c = ColStreakMax THEN streak_max
        ELSE Criticidad(dias_disponibles, streak_max, th)]

SummaryOfDates(rut, first, disp_dates, th, window_days) ==
    SummaryFields(rut, first, Len(disp_dates), max_consecutive_days(disp_dates),
                  th, window_days)

\* One pass of the loop over d.groupby("RUT"): g is the group of rut
SummaryRow(rut, g, th, window_days) ==
    SummaryOfDates(rut, g[1], AvailableDates(g), th, window_days)

Group(d, rut) == SelectSeq(d, LAMBDA r : r[ColRUT] = rut)

\* The keys of d.groupby("RUT", dropna=False), d being sorted by RUT
GroupKeys(d) == Distinct([i \in 1..Len(d) |-> d[i][ColRUT]])

SummaryRows(d, ruts, th, window_days) ==
    [k \in 1..Len(ruts) |-> SummaryRow(ruts[k], Group(d, ruts[k]), th, window_days)]

\* d[[...]] of the seven detail columns
Detalle(d) == [i \in 1..Len(d) |-> [c \in Range(DetalleCols) |-> d[i][c]]]

\* The loop over the groups, the sort of the summary, and the return
Aggregate(d, th, window_days, start, end, cfg, ml) ==
    Result("none",
           [cols |-> ResumenCols,
            rows |-> SortResumen(SummaryRows(d, GroupKeys(d), th, window_days))],
           [cols |-> DetalleCols, rows |-> Detalle(d)],
           Meta(start, end, th.th_high_days, th.th_low_days, th.th_streak,
                window_days, cfg.rules),
           IF ml.kind = "none" THEN 0 ELSE 1)

\* A plausible slip: the empty detail table is cut without its disp_flag.
EmptyResult_NoFlagColumn(cfg, start, end) ==
    Result("none",
           [cols |-> ResumenCols, rows |-> <<>>],
           [cols |-> EXPECTED_COLS, rows |-> <<>>],
           Meta(start, end, DEFAULT_CFG.rules.high_days, DEFAULT_CFG.rules.low_days,
                DEFAULT_CFG.rules.high_streak, (end - start) + 1, cfg.rules),
           0)

\* The return of the branch "if d.empty", for a dataset with the six columns
EmptyResult(cfg, start, end) ==
    Result("none",
           [cols |-> ResumenCols, rows |-> <<>>],
           [cols |-> DetalleCols, rows |-> <<>>],
           Meta(start, end, DEFAULT_CFG.rules.high_days, DEFAULT_CFG.rules.low_days,
                DEFAULT_CFG.rules.high_streak, (end - start) + 1, cfg.rules),
           0)

\* classify_all from "if d.empty" on: rows are the rows left in the window
ClassifyWindow(cols, rows, start, end, cfg, ml) ==
    IF rows = <<>> THEN EmptyResult(cfg, start, end)
    ELSE Aggregate(SortRows(Flagged(cols, rows, DispFlags(rows, cfg, ml))),
                   Thresholds(cfg.rules, (end - start) + 1), (end - start) + 1,
                   start, end, cfg, ml)

\* classify_all after _apply_filters: the window and the rows in it
ClassifyFiltered(d, cfg, ml, date_range, today) ==
    ClassifyWindow(d.cols, WindowRows(d.rows, date_range),
                   WindowStart(d.rows, date_range, today),
                   WindowEnd(d.rows, date_range, today), cfg, ml)

\* classify_all(df, cfg, ml, date_range); today is dt.date.today()
classify_all(df, cfg, ml, date_range, today) ==
    IF ColFecha \notin Range(df.cols)
    THEN Result("ValueError", EmptyTable, EmptyTable, NoResult.meta, 0)
    ELSE ClassifyFiltered(apply_filters(df, cfg), cfg, ml, date_range, today)

\* ---------------------------------------------------------------- sin carga
\* A plausible slip: only the empty text counts, the markers are forgotten.
is_nullish_EmptyOnly(s) == Strip(s) = <<>>

\* is_nullish on a cell of the normalized dataset (a str)
is_nullish(s) == StrLower(Strip(s)) \in {<<>>, <<"n","u","l","l">>, <<"n","o","n","e">>, <<"n","a","n">>}

\* sort_values(["fecha", "Colaborador"]): a stable insertion sort on that key
SinCargaLess(a, b) ==
    \/ a[ColFecha] < b[ColFecha]
    \/ a[ColFecha] = b[ColFecha] /\ StrLess(a[ColColaborador], b[ColColaborador])

RECURSIVE InsertSinCarga(_, _)
InsertSinCarga(sorted, x) ==
    IF sorted = <<>> THEN <<x>>
    ELSE IF SinCargaLess(x, sorted[Len(sorted)])
         THEN InsertSinCarga(SubSeq(sorted, 1, Len(sorted) - 1), x)
                \o <<sorted[Len(sorted)]>>
         ELSE sorted \o <<x>>

RECURSIVE SortSinCarga(_)
SortSinCarga(rows) ==
    IF rows = <<>> THEN <<>>
    ELSE InsertSinCarga(SortSinCarga(SubSeq(rows, 1, Len(rows) - 1)), rows[Len(rows)])

SinCargaCols == <<ColColaborador, ColRUT, ColDepartamento, ColCiudad, ColFecha, ColActividad>>

\* d.loc[mask, cols]
SinCargaRows(rows, cols) ==
    [i \in 1..Len(rows) |-> [c \in Range(cols) |-> rows[i][c]]]

SinCargaTable(kept, cols) ==
    [cols |-> cols, rows |-> SortSinCarga(SinCargaRows(kept, cols))]

\* build_sin_carga(df, date_range) on a dataset that has fecha and actividad
build_sin_carga(df, date_range) ==
    SinCargaTable(SelectSeq(WindowRows(df.rows, date_range),
                            LAMBDA r : is_nullish(r[ColActividad])),
                  SelectSeq(SinCargaCols, LAMBDA c : c \in Range(df.cols)))

\* sort_values(cols[:1]): a stable insertion sort on the text column c
RECURSIVE InsertByCol(_, _, _)
InsertByCol(sorted, x, c) ==
    IF sorted = <<>> THEN <<x>>
    ELSE IF StrLess(x[c], sorted[Len(sorted)][c])
         THEN InsertByCol(SubSeq(sorted, 1, Len(sorted) - 1), x, c)
                \o <<sorted[Len(sorted)]>>
         ELSE sorted \o <<x>>

RECURSIVE SortByCol(_, _)
SortByCol(rows, c) ==
    IF rows = <<>> THEN <<>>
    ELSE InsertByCol(SortByCol(SubSeq(rows, 1, Len(rows) - 1), c), rows[Len(rows)], c)

\* What a call of build_sin_carga gives: err is "none" or the exception
\* raised, table the table returned
SinCarga(err, table) == [err |-> err, table |-> table]

\* out = d.loc[mask, cols].sort_values(...) for the columns cols kept: the
\* key is fecha and Colaborador when fecha is kept, and a KeyError when
\* Colaborador is not there; else the key is the first column kept
SinCargaSorted(df, date_range, cols) ==
    IF ColFecha \in Range(cols)
    THEN IF ColColaborador \in Range(cols)
         THEN SinCarga("none", build_sin_carga(df, date_range))
         ELSE SinCarga("KeyError", EmptyTable)
    ELSE SinCarga("none",
                  [cols |-> cols,
                   rows |-> SortByCol(SinCargaRows(
                                SelectSeq(df.rows, LAMBDA r : is_nullish(r[ColActividad])),
                                cols), cols[1])])

\* build_sin_carga(df, date_range) on a table with any columns: ValueError
\* without actividad, KeyError from d["fecha"] when a window is given and
\* there is no fecha
build_sin_carga_of(df, date_range) ==
    IF ColActividad \notin Range(df.cols) THEN SinCarga("ValueError", EmptyTable)
    ELSE IF date_range.given /\ ColFecha \notin Range(df.cols)
    THEN SinCarga("KeyError", EmptyTable)
    ELSE SinCargaSorted(df, date_range,
                        SelectSeq(SinCargaCols, LAMBDA c : c \in Range(df.cols)))

\* df.drop(columns = dropped)
DropColumns(df, dropped) ==
    [cols |-> SelectSeq(df.cols, LAMBDA c : c \notin dropped),
     rows |-> [i \in 1..Len(df.rows) |->
                 [c \in Range(df.cols) \ dropped |-> df.rows[i][c]]]]

\* ------------------------------------------------------------- run_pipeline
\* A plausible slip: the 27th is always taken in today's month.
compute_window_from_27_SameMonth(today) == DateRange(ReplaceDay(today, 27), today)

\* compute_window_from_27 with today already a date
compute_window_from_27(today) ==
    IF DayOfMonth(today) >= 27
    THEN DateRange(ReplaceDay(today, 27), today)
    ELSE DateRange(ReplaceDay(ReplaceDay(today, 1) - 1, 27), today)

\* reorder_name_rut_first(df, rut_col = "RUT_fmt"): first, then tail
reorder_name_rut_first(df) ==
    [cols |-> SelectSeq(<<ColColaborador, ColRutFmt>>, LAMBDA c : c \in Range(df.cols))
                \o SelectSeq(df.cols, LAMBDA c : c \notin {ColColaborador, ColRutFmt}),
     rows |-> df.rows]

\* d.drop(columns=["RUT"]).rename(columns={"RUT_fmt": "RUT"})
CalcCols(cols) ==
    [i \in 1..Len(cols) |-> IF cols[i] = ColRutFmt THEN ColRUT ELSE cols[i]]

CalcTable(df, cols) ==
    [cols |-> cols,
     rows |-> [i \in 1..Len(df.rows) |->
                 [c \in Range(cols) |->
                     IF c = ColRUT THEN df.rows[i][ColRutFmt] ELSE df.rows[i][c]]]]

\* _df_with_calc_rut: RUT_fmt takes the place and the name of RUT
df_with_calc_rut(df) ==
    IF ColRutFmt \in Range(df.cols)
    THEN CalcTable(df, CalcCols(SelectSeq(df.cols, LAMBDA c : c # ColRUT)))
    ELSE df

\* RunOptions, the fields the model follows
NoOpts ==
    [format_rut |-> FALSE, filter_valid_ruts |-> FALSE, reorder_name_rut |-> FALSE,
     start_date |-> PyNone, end_date |-> PyNone, as_of |-> PyNone]

\* The allow-list file: whether it exists, and the set load_valid_ruts reads
NoRutsFile == [exists |-> FALSE, valid |-> {}]

\* What a run of run_pipeline leaves: err is "none" or the exception raised;
\* norm is the dataset saved as disponibilidad_normalizada.csv, handed the
\* dataset given to filtrar_sin_carga and classify_all, fuera the rows of
\* ruts_fuera_de_lista.csv, sin_df the sin-carga table, res classify_all's return.
Run(err, norm, handed, fuera, sin_df, res) ==
    [err |-> err, norm |-> norm, handed |-> handed, fuera |-> fuera,
     sin_df |-> sin_df, res |-> res]

\* A run that raised err (one that has produced nothing yet has err "none")
Raised(err) == Run(err, EmptyTable, EmptyTable, EmptyTable, EmptyTable, NoResult)

\* 12) classify_all(df_calc, cfg, ml=None, date_range=(start, end))
RunClassified(norm, df_calc, fuera, sin_df, res) ==
    Run(res.err, norm, df_calc, fuera, sin_df, res)

\* 11) df_calc = _df_with_calc_rut(df); sin_df = filtrar_sin_carga(df_calc, ...)
RunCalc(norm, df_calc, fuera, date_range, cfg, today) ==
    RunClassified(norm, df_calc, fuera, build_sin_carga(df_calc, date_range),
                  classify_all(df_calc, cfg, MlNone, date_range, today))

\* compute_window_from_27(opts.as_of): fromisoformat raises ValueError
RunAsOf(df, fuera, as_of, cfg, today) ==
    IF as_of.isStr /\ as_of.s # <<>>
    THEN IF ParseDate(as_of).ok
         THEN RunCalc(df, df_with_calc_rut(df), fuera,
                      compute_window_from_27(ParseDate(as_of).date), cfg, today)
         ELSE Raised("ValueError")
    ELSE RunCalc(df, df_with_calc_rut(df), fuera, compute_window_from_27(today), cfg, today)

\* 10) the window: both overrides, else the window from the 27th
RunWindow(df, fuera, s_override, e_override, opts, cfg, today) ==
    IF s_override.ok /\ e_override.ok
    THEN RunCalc(df, df_with_calc_rut(df), fuera,
                 DateRange(s_override.date, e_override.date), cfg, today)
    ELSE RunAsOf(df, fuera, opts.as_of, cfg, today)

\* 6) df["RUT_fmt"] = format_rut_series(df["RUT"]) or df["RUT"]
WithRutFmt(df, fmt) ==
    [cols |-> df.cols \o <<ColRutFmt>>,
     rows |-> [i \in 1..Len(df.rows) |->
                 [c \in Range(df.cols) \cup {ColRutFmt} |->
                     IF c = ColRutFmt
                     THEN IF fmt THEN format_rut(df.rows[i][ColRUT]) ELSE df.rows[i][ColRUT]
                     ELSE df.rows[i][c]]]]

\* 7) reorder_name_rut_first when opts.reorder_name_rut
Reordered(df, reorder) == IF reorder THEN reorder_name_rut_first(df) ELSE df

FueraCols == <<ColColaborador, ColRUT, ColDepartamento, ColFecha, ColActividad>>

\* invalid[["Colaborador", "RUT", "Departamento", "fecha", "actividad"]]
InvalidRows(df, filtering, valid) ==
    IF filtering
    THEN [cols |-> FueraCols,
          rows |-> SinCargaRows(SelectSeq(df.rows, LAMBDA r : r[ColRUT] \notin valid),
                                FueraCols)]
    ELSE EmptyTable

\* A plausible slip: the mask is computed and not applied to df.
ValidRows_MaskNotApplied(df, filtering, valid) == df

\* df.loc[mask_valid]
ValidRows(df, filtering, valid) ==
    IF filtering
    THEN [cols |-> df.cols, rows |-> SelectSeq(df.rows, LAMBDA r : r[ColRUT] \in valid)]
    ELSE df

\* 5) to 10): the allow-list, RUT_fmt, the reordering, _parse_date_safe of
\* the two overrides
RunFiltered(df, filtering, opts, rutsFile, cfg, today) ==
    RunWindow(Reordered(WithRutFmt(ValidRows(df, filtering, rutsFile.valid),
                                   opts.format_rut),
                        opts.reorder_name_rut),
              InvalidRows(df, filtering, rutsFile.valid),
              ParseDate(opts.start_date), ParseDate(opts.end_date),
              opts, cfg, today)

\* 4) df["RUT"] = normalize_rut_series(df["RUT"])
RenormalizeRut(df) ==
    [cols |-> df.cols,
     rows |-> [i \in 1..Len(df.rows) |->
                 [c \in Range(df.cols) |->
                     IF c = ColRUT THEN normalize_rut_cell(df.rows[i][c])
                     ELSE df.rows[i][c]]]]

\* 3) if df is None or df.empty: raise RuntimeError
RunLoaded(loaded, opts, rutsFile, cfg, today) ==
    IF loaded.err \in {"ValueError", "AttributeError"} THEN Raised(loaded.err)
    ELSE IF loaded.err = "None" \/ loaded.df.rows = <<>> THEN Raised("RuntimeError")
    ELSE RunFiltered(RenormalizeRut(loaded.df),
                     opts.filter_valid_ruts /\ rutsFile.exists /\ rutsFile.valid # {},
                     opts, rutsFile, cfg, today)

\* run_pipeline(ui, opts) on the dataset file raw, the allow-list file
\* rutsFile and the configuration cfg that load_config returns.
run_pipeline(raw, opts, rutsFile, cfg, today) ==
    RunLoaded(load_dataset(raw), opts, rutsFile, cfg, today)

\* ------------------------------------------------------------------- inputs
\* The people of the dataset files: raw national ID, department, and name.
\* The first ID normalizes to 1111111-K, the second to 222222-2, the third
\* does not parse.
Ana == [rut |-> <<"1",".","1","1","1",".","1","1","1","-","k">>, dept |-> <<"o","p","e","r">>, name |-> <<"A","n","a">>]

Beto == [rut |-> <<"2","2","2","2","2","2","-","2">>, dept |-> <<"V","E","N","T","A","S">>, name |-> <<"B","e","t","o">>]

Xi == [rut |-> <<"1","2","-","3">>, dept |-> <<"o","p","e","r">>, name |-> <<"X","i">>]

FechaPool == {<<"2","0","2","4","-","0","1","-","0","1">>, <<"2","0","2","4","-","0","1","-","0","2">>}

ActPool == {<<"D","i","s","p","o","n","i","b","l","e">>, <<"S","E","R","-","1">>}

\* One row of the file: the cells under EXPECTED_COLS; act is a cell, None
\* where the file has nothing
RawRow(who, fecha, act) ==
    <<PyStr(who.name), PyStr(who.dept), PyStr(who.rut), PyStr(<<"S","t","g","o">>),
      PyStr(fecha), act>>

\* Rows of the three people on the two dates, with and without the whitelist
\* keyword, one row without activity and one whose date does not parse.
RowPool ==
    {RawRow(Ana, fecha, PyStr(act)) : fecha \in FechaPool, act \in ActPool}
        \cup {RawRow(Beto, <<"2","0","2","4","-","0","1","-","0","1">>, PyStr(<<"D","i","s","p","o","n","i","b","l","e">>)),
              RawRow(Beto, <<"2","0","2","4","-","0","1","-","0","2">>, PyStr(<<"S","E","R","-","1">>)),
              RawRow(Xi, <<"2","0","2","4","-","0","1","-","0","1">>, PyStr(<<"D","i","s","p","o","n","i","b","l","e">>)),
              RawRow(Ana, <<"2","0","2","4","-","0","1","-","0","2">>, PyNone),
              RawRow(Ana, <<"s","/","f">>, PyStr(<<"D","i","s","p","o","n","i","b","l","e">>))}

RawTable(rows) == [cols |-> EXPECTED_COLS, rows |-> rows]

RawTables ==
    {RawTable(rows) : rows \in UNION {[1..n -> RowPool] : n \in 0..MaxRows}}

\* The text of the date of January 2024 with day-of-month d
JanuaryText(d) == <<"2","0","2","4","-","0","1","-">> \o <<DigitSeq[(d \div 10) + 1], DigitSeq[(d % 10) + 1]>>

DayRows(ds) == [i \in 1..Len(ds) |-> RawRow(Ana, JanuaryText(ds[i]), PyStr(<<"D","i","s","p","o","n","i","b","l","e">>))]

\* One person, available ("Disponible") on each day of days, one row a day
DaysTable(days) == RawTable(DayRows(SortedSeq(days)))

\* Eight available days in a 30-day window, no two of them adjacent
EightDays == {1, 3, 5, 7, 9, 11, 13, 15}

DaysTables == {DaysTable(days) : days \in (SUBSET (1..MaxDay)) \cup {EightDays}}

Rules(h, s, l) == [high_days |-> h, high_streak |-> s, low_days |-> l]

CfgPool ==
    {DEFAULT_CFG,
     [DEFAULT_CFG EXCEPT !.rules = Rules(3, 3, 1)],
     [DEFAULT_CFG EXCEPT !.rules = Rules(7, 2, 4)],
     [DEFAULT_CFG EXCEPT !.filters.allowed_departments = <<>>]}

RangePool ==
    {NoRange, DateRange(1, 1), DateRange(1, 2), DateRange(2, 1), DateRange(1, 20),
     DateRange(1, 30)}

MlPool == {MlRaises, MlConst(0), MlConst(1)}

MlRangePool == {NoRange, DateRange(1, 2), DateRange(2, 1)}

\* dt.date.today(): 2024-01-30
TodayPool == {30}

WindowOpts ==
    {[start_date |-> PyStr(<<"2","0","2","4","-","0","1","-","0","1">>), end_date |-> PyStr(<<"2","0","2","4","-","0","1","-","0","2">>), as_of |-> PyNone],
     [start_date |-> PyNone, end_date |-> PyNone, as_of |-> PyStr(<<"2","0","2","4","-","0","1","-","0","4">>)],
     [start_date |-> PyNone, end_date |-> PyNone, as_of |-> PyStr(<<"s","/","f">>)],
     [start_date |-> PyNone, end_date |-> PyNone, as_of |-> PyNone]}

OptsPool ==
    {[format_rut |-> f, filter_valid_ruts |-> v, reorder_name_rut |-> r,
      start_date |-> w.start_date, end_date |-> w.end_date, as_of |-> w.as_of] :
        f \in BOOLEAN, v \in BOOLEAN, r \in BOOLEAN, w \in WindowOpts}

RutsFilePool == {NoRutsFile, [exists |-> TRUE, valid |-> {<<"1","1","1","1","1","1","1","-","K">>}]}

\* Allow-list files: none; one that yields no valid ID; one with the first
\* person's ID; one with the first two persons' IDs
AllowListPool ==
    RutsFilePool
        \cup {[exists |-> TRUE, valid |-> {}],
              [exists |-> TRUE, valid |-> {<<"1","1","1","1","1","1","1","-","K">>, <<"2","2","2","2","2","2","-","2">>}]}

\* The options of the form with the window left to the 27th rule
AllowOptsPool == {o \in OptsPool : ~o.start_date.isStr /\ ~o.as_of.isStr}

\* The characters typed into a national-ID string
RutAlphabet == {"1", "k", "K", ".", "-", " "}

\* The characters typed into an activity text
TextAlphabet == {"a", "A", "b", " ", "-"}

\* The spellings a character of the text is changed to
RespellAlphabet == {"a", "A", "a'"}

Availability(wl, blp, ble, ne) ==
    [availability |-> [whitelist_keywords |-> wl, blacklist_prefixes |-> blp,
                       blacklist_exact |-> ble, neutral_keywords |-> ne]]

\* Keyword lists over the characters of the typed texts: the whitelist
\* overlapping every other list, empty, and holding the empty keyword
FlagCfgPool ==
    {Availability(<< <<"a">> >>, << <<"a">> >>, << <<"a">> >>, << <<"a">> >>),
     Availability(<< <<"a","b">>, <<"b","-">> >>, << <<"b","-">>, <<"a">> >>, << <<"a","b">> >>, << <<"b">> >>),
     Availability(<<>>, << <<"a">> >>, << <<"b">> >>, << <<"-">> >>),
     Availability(<< <<>> >>, << <<"b">> >>, <<>>, <<>>),
     Availability(<< <<"b"," ","a">> >>, <<>>, << <<"b"," ","a">> >>, <<>>)}

\* One column of a dataset file: its header, and the cell every row has
\* under it; a column of IDs has a cell of its own in every row.
FileCol(h, cell) == [h |-> h, cell |-> PyStr(cell), rut |-> FALSE]

RutCol(h) == [h |-> h, cell |-> PyNone, rut |-> TRUE]

\* The layouts of the dataset files: the canonical headers; other spellings
\* of them; actividad under another name; no city column; two and three
\* columns of IDs.
LayoutPool ==
    {<<FileCol(ColColaborador, <<"A","n","a">>), FileCol(ColDepartamento, <<"o","p","e","r">>), RutCol(ColRUT),
       FileCol(ColCiudad, <<"S","t","g","o">>), FileCol(ColFecha, <<"2","0","2","4","-","0","1","-","0","1">>), FileCol(ColActividad, <<"D","i","s","p","o","n","i","b","l","e">>)>>,
     <<FileCol(<<" ","C","O","L","A","B","O","R","A","D","O","R"," ">>, <<"A","n","a">>), FileCol(<<"d","e","p","a","r","t","a","m","e","n","t","o">>, <<"o","p","e","r">>), RutCol(<<"R","u","t">>),
       FileCol(<<"C","i","u","d","a","d"," "," ","d","e"," ","r","e","s","i","d","e","n","c","i","a">>, <<"S","t","g","o">>), FileCol(<<"F","E","C","H","A">>, <<"2","0","2","4","-","0","1","-","0","1">>), FileCol(<<"A","c","t","i","v","i","d","a","d">>, <<"D","i","s","p","o","n","i","b","l","e">>)>>,
     <<FileCol(ColColaborador, <<"A","n","a">>), FileCol(ColDepartamento, <<"o","p","e","r">>), RutCol(ColRUT),
       FileCol(ColCiudad, <<"S","t","g","o">>), FileCol(ColFecha, <<"2","0","2","4","-","0","1","-","0","1">>), FileCol(<<"t","a","r","e","a">>, <<"D","i","s","p","o","n","i","b","l","e">>)>>,
     <<FileCol(ColColaborador, <<"A","n","a">>), FileCol(ColDepartamento, <<"o","p","e","r">>), RutCol(ColRUT),
       FileCol(ColFecha, <<"2","0","2","4","-","0","1","-","0","1">>), FileCol(ColActividad, <<"D","i","s","p","o","n","i","b","l","e">>)>>,
     <<FileCol(ColColaborador, <<"A","n","a">>), FileCol(ColDepartamento, <<"o","p","e","r">>), RutCol(ColRUT),
       FileCol(ColCiudad, <<"S","t","g","o">>), FileCol(ColFecha, <<"2","0","2","4","-","0","1","-","0","1">>), FileCol(ColActividad, <<"D","i","s","p","o","n","i","b","l","e">>),
       RutCol(<<" ","r","u","t">>)>>,
     <<RutCol(<<"R","u","t">>), FileCol(ColColaborador, <<"A","n","a">>), FileCol(ColDepartamento, <<"o","p","e","r">>),
       RutCol(ColRUT), FileCol(ColCiudad, <<"S","t","g","o">>), FileCol(ColFecha, <<"2","0","2","4","-","0","1","-","0","1">>),
       FileCol(ColActividad, <<"D","i","s","p","o","n","i","b","l","e">>), RutCol(<<" ","r","u","t">>)>>}

\* The ID cell of the k-th column of IDs: nothing, blanks, or an ID of its own
RutCells(k) ==
    {PyNone, PyStr(<<" ", " ">>),
     PyStr(<< <<"1",".","1","1","1",".","1","1","1","-","k">>, <<"2","2","2","2","2","2","-","2">>, <<"3","3","3","3","3","3","3","-","3">> >>[k])}

\* The positions of the columns of IDs of a layout
RutPositions(layout) == SelectSeq([i \in 1..Len(layout) |-> i], LAMBDA i : layout[i].rut)

\* One row of a file of the layout, ruts being the cells of its ID columns
LayoutRow(layout, ruts) ==
    [i \in 1..Len(layout) |->
        IF layout[i].rut THEN ruts[IndexOf(RutPositions(layout), i)] ELSE layout[i].cell]

LayoutRows(layout) ==
    {LayoutRow(layout, ruts) :
        ruts \in {f \in [1..Len(RutPositions(layout)) -> UNION {RutCells(k) : k \in 1..3}] :
                    \A k \in DOMAIN f : f[k] \in RutCells(k)}}

LayoutTables ==
    UNION {{[cols |-> [i \in 1..Len(layout) |-> layout[i].h], rows |-> rows] :
              rows \in UNION {[1..n -> LayoutRows(layout)] : n \in 0..MaxRows}} :
           layout \in LayoutPool}

\* The window fields of the form: explicit bounds that parse, in order and
\* reversed, one that does not parse, only one bound, none; as_of on the
\* 27th, before it in January and in February, or not given
WindowFormPool ==
    {[NoOpts EXCEPT !.start_date = s, !.end_date = e, !.as_of = a] :
        s \in {PyNone, PyStr(<<"2","0","2","4","-","0","1","-","0","5">>), PyStr(<<"s","/","f">>)},
        e \in {PyNone, PyStr(<<"2","0","2","4","-","0","1","-","0","3">>), PyStr(<<"2","0","2","4","-","0","1","-","2","0">>)},
        a \in {PyNone, PyStr(<<"2","0","2","4","-","0","1","-","0","4">>), PyStr(<<"2","0","2","4","-","0","1","-","2","7">>), PyStr(<<"2","0","2","4","-","0","2","-","1","0">>)}}

\* dt.date.today(): 2024-01-26 and 2024-03-01
WindowTodayPool == {26, 61}

\* Configurations whose rules are the defaults, zero, negative, and with
\* low_days above high_days
RulesCfgPool ==
    {[DEFAULT_CFG EXCEPT !.rules = rules] :
        rules \in {Rules(7, 3, 4), Rules(0, 0, 0), Rules(0 - 2, 0 - 1, 0 - 3), Rules(2, 1, 9)}}

\* Windows from 2024-01-01 of 1, 2, 3, 10, 15, 20, 29, 30 and 31 days, and none
RulesRangePool == {NoRange} \cup {DateRange(1, w) : w \in {1, 2, 3, 10, 15, 20, 29, 30, 31}}

\* Rows of two people on two dates whose activity is missing, blank, one of
\* the markers in some case, or a text that is no marker
SinCargaRowPool ==
    {RawRow(Beto, <<"2","0","2","4","-","0","1","-","0","1">>, PyNone),
     RawRow(Ana, <<"2","0","2","4","-","0","1","-","0","1">>, PyStr(<<" ", " ">>)),
     RawRow(Ana, <<"2","0","2","4","-","0","1","-","0","2">>, PyStr(<<"N","U","L","L">>)),
     RawRow(Beto, <<"2","0","2","4","-","0","1","-","0","2">>, PyStr(<<"N","o","n","e">>)),
     RawRow(Ana, <<"2","0","2","4","-","0","1","-","0","1">>, PyStr(<<"N","a","N">>)),
     RawRow(Beto, <<"2","0","2","4","-","0","1","-","0","1">>, PyStr(<<"D","i","s","p","o","n","i","b","l","e">>)),
     RawRow(Ana, <<"2","0","2","4","-","0","1","-","0","2">>, PyStr(<<"n","u","l","o">>)),
     RawRow(Ana, <<"2","0","2","4","-","0","1","-","0","1">>, PyStr(<<"n","o","n","e","x","i","s","t","e","n","t">>))}

SinCargaTables ==
    {RawTable(rows) : rows \in UNION {[1..n -> SinCargaRowPool] : n \in 0..MaxRows}}

\* The columns a caller of build_sin_carga may have dropped from the dataset
DroppedPool ==
    {{}, {ColColaborador}, {ColFecha}, {ColFecha, ColColaborador}, {ColActividad},
     {ColCiudad}}

SinCargaRangePool == {NoRange, DateRange(1, 1), DateRange(2, 3)}

\* -------------------------------------------------------------------- state
VARIABLES
    raw,      \* the dataset file: headers and rows of cells, as read_csv gives them
    pc,       \* "input", "loaded" (load_dataset returned), "done", "failed"
    loaded,   \* what load_dataset returned
    call,     \* the operation run and its arguments
    run,      \* what the run produced: the tables, classify_all's return, err
    rutIn,    \* the value given to normalize_rut_value
    rutOut,   \* what normalize_rut_value returned for it
    actText,  \* the text given to classify_activity_flag
    actCfg,   \* the configuration given with it
    actFlag,  \* what classify_activity_flag returned for them
    disk,     \* the files the desktop form's threads share, each with its state
    threads   \* the background threads started by on_run and on_download

\* config.yml files: none at the path; one without a filters key; one whose
\* filters key has no value; one whose filters mapping has no
\* allowed_departments; an empty list; lists in lower case, of another
\* department, and of two departments
ConfigFilePool ==
    {NoConfigFile,
     ConfigFile(TRUE, "absent", FALSE, <<>>),
     ConfigFile(TRUE, "null", FALSE, <<>>),
     ConfigFile(TRUE, "section", FALSE, <<>>),
     ConfigFile(TRUE, "section", TRUE, <<>>),
     ConfigFile(TRUE, "section", TRUE, << <<"o","p","e","r">> >>),
     ConfigFile(TRUE, "section", TRUE, << <<"V","e","n","t","a","s">> >>),
     ConfigFile(TRUE, "section", TRUE, << <<"v","e","n","t","a","s">>, <<"O","P","E","R">> >>)}

\* The lists a file gives to the options of availability that it sets
FileLists ==
    [whitelist_keywords |-> << <<"l","i","b","r","e">> >>,
     blacklist_prefixes |-> << <<"x","-">> >>,
     blacklist_exact |-> <<>>,
     neutral_keywords |-> << <<"o","f","i","c","i","n","a">> >>]

\* The availability of a file: no such key, or a mapping that sets any of
\* the four options, none included
AvailabilityPool ==
    {NoSection} \cup {Section([k \in K |-> FileLists[k]]) : K \in SUBSET AvailabilityKeys}

\* config.yml files with and without filters and availability
ConfigSectionsPool ==
    {WithAvailability(file, section) :
        file \in ConfigFilePool \ {NoConfigFile}, section \in AvailabilityPool}
        \cup {NoConfigFile}

ConfigRangePool == {NoRange, DateRange(1, 2), DateRange(2, 2)}

\* Values of the cells of an allow-list file: two IDs, and a name
RutCellA == PyStr(<<"1",".","1","1","1",".","1","1","1","-","1">>)

RutCellB == PyStr(<<"2","2","2","2","2","2","2","-","k">>)

NameCell == PyStr(<<"A","n","a">>)

\* Columns of six rows, of scores 1, 1/2, 1/2, 1/5 (one null), 1/6, 0 and 0
\* (no value at all)
RutsCellsPool ==
    {<<RutCellA, RutCellA, RutCellA, RutCellA, RutCellA, RutCellA>>,
     <<RutCellA, RutCellA, RutCellA, NameCell, NameCell, NameCell>>,
     <<RutCellB, NameCell, RutCellB, NameCell, RutCellB, NameCell>>,
     <<NameCell, RutCellA, PyNone, NameCell, NameCell, NameCell>>,
     <<RutCellB, NameCell, NameCell, NameCell, NameCell, NameCell>>,
     <<NameCell, NameCell, NameCell, NameCell, NameCell, NameCell>>,
     <<PyNone, PyNone, PyNone, PyNone, PyNone, PyNone>>}

\* Headers: two known spellings of the ID column, two headers that are none, and
\* the first line of a file written without a header line
RutsHeaderPool ==
    {<<"BOM","R","u","t">>, <<" ","R","u","t","s"," "," ","V","a'","l","i","d","o","s"," ">>,
     <<"i","d">>, <<"N","o","m","b","r","e">>, <<"3","3","3","3","3","3","3","-","3">>}

\* How many columns an allow-list file has at most
MaxRutsCols == 2

\* Allow-list files of up to MaxRutsCols columns with distinct headers
RutsCsvPool ==
    {f \in UNION {[1..n -> {RutsColumn(h, cells) : h \in RutsHeaderPool, cells \in RutsCellsPool}] :
                     n \in 1..MaxRutsCols} :
        \A i, j \in 1..Len(f) : i # j => f[i].h # f[j].h}

vars == <<raw, pc, loaded, call, run, rutIn, rutOut, actText, actCfg, actFlag,
          disk, threads>>

NoCall ==
    [op |-> "none", cfg |-> DEFAULT_CFG, ml |-> MlNone, date_range |-> NoRange,
     opts |-> NoOpts, rutsFile |-> NoRutsFile, today |-> 0,
     cfgFile |-> NoConfigFile, rutsCsv |-> <<>>]

\* ---- the desktop form's background threads (ui.py)
\* How many threads the form has running at once: on_run and on_download
\* start one at every press, and nothing in the form holds a second press back
MaxThreads == 2

Threads == 1..MaxThreads

\* A file on disk. state: "present" (whole), "absent", or "writing" (opened
\* and truncated by a writer that has not closed it yet). by: the thread that
\* last deleted or wrote it, 0 for a session before this one
File(state, by) == [state |-> state, by |-> by]

\* What a thread that has not read a file yet knows of it
Unread == File("unread", 0)

\* The release assets, in the order both on_download and run_pipeline fetch
\* them: the dataset, the allow-list, the projects archive
Assets == <<"disp", "ruts", "idop">>

\* The files of run_pipeline's `outputs` that every run writes
Outputs == {"norm", "sin_carga", "resumen"}

\* The data and output folders after an earlier session's download
InitialDisk ==
    [disp |-> File("present", 0), ruts |-> File("present", 0),
     idop |-> File("present", 0), norm |-> File("absent", 0),
     sin_carga |-> File("absent", 0), resumen |-> File("absent", 0)]

\* A thread slot before the button is pressed
NoThread ==
    [kind |-> "none", pc |-> "idle", asset |-> 0, download |-> FALSE,
     filter |-> FALSE, sawDisp |-> Unread, sawRuts |-> Unread,
     reported |-> <<>>, err |-> "none"]

\* Nothing run yet, nothing typed yet
InitRest ==
    /\ pc = "input"
    /\ loaded = Loaded("none", <<>>, <<>>, EmptyTable)
    /\ call = NoCall
    /\ run = Raised("none")
    /\ rutIn = PyStr(<<>>)
    /\ rutOut = normalize_rut_value(rutIn)
    /\ actText = PyStr(<<>>)
    /\ actCfg = Availability(<<>>, <<>>, <<>>, <<>>)
    /\ actFlag = classify_activity_flag(actText, actCfg)
    /\ disk = InitialDisk
    /\ threads = [t \in Threads |-> NoThread]

Init == raw \in RawTables /\ InitRest

\* load_dataset(csv_file = the dataset file)
LoadDataset ==
    /\ pc = "input"
    /\ loaded' = load_dataset(raw)
    /\ pc' = IF loaded'.err = "none" THEN "loaded" ELSE "failed"
    /\ call' = [NoCall EXCEPT !.op = "load_dataset"]
    /\ UNCHANGED <<raw, run, rutIn, rutOut, actText, actCfg, actFlag, disk, threads>>

\* classify_all(df, cfg, ml, date_range) on the loaded dataset
ClassifyAll(cfg, ml, date_range, today) ==
    /\ pc = "loaded"
    /\ run' = RunClassified(EmptyTable, loaded.df, EmptyTable, EmptyTable,
                            classify_all(loaded.df, cfg, ml, date_range, today))
    /\ call' = [NoCall EXCEPT !.op = "classify_all", !.cfg = cfg, !.ml = ml,
                              !.date_range = date_range, !.today = today]
    /\ pc' = IF run'.err = "none" THEN "done" ELSE "failed"
    /\ UNCHANGED <<raw, loaded, rutIn, rutOut, actText, actCfg, actFlag, disk, threads>>

\* run_pipeline(ui, opts) of the desktop form
RunPipeline(opts, rutsFile, cfg, today) ==
    /\ pc = "input"
    /\ run' = run_pipeline(raw, opts, rutsFile, cfg, today)
    /\ pc' = IF run'.err = "none" THEN "done" ELSE "failed"
    /\ call' = [NoCall EXCEPT !.op = "run_pipeline", !.cfg = cfg, !.opts = opts,
                              !.rutsFile = rutsFile, !.today = today]
    /\ UNCHANGED <<raw, loaded, rutIn, rutOut, actText, actCfg, actFlag, disk, threads>>

Next ==
    \/ LoadDataset
    \/ \E cfg \in CfgPool, date_range \in RangePool, today \in TodayPool :
          ClassifyAll(cfg, MlNone, date_range, today)
    \/ \E ml \in MlPool, date_range \in MlRangePool, today \in TodayPool :
          ClassifyAll(DEFAULT_CFG, ml, date_range, today)
    \/ \E opts \in OptsPool, rutsFile \in RutsFilePool, today \in TodayPool :
          RunPipeline(opts, rutsFile, DEFAULT_CFG, today)

\* Dataset files of a few people, dates and activities
Spec == Init /\ [][Next]_vars

InitDays == raw \in DaysTables /\ InitRest

\* Dataset files of one person available on a set of days
SpecDays == InitDays /\ [][Next]_vars

\* No dataset file: only the two functions below are applied
InitTyping == raw = RawTable(<<>>) /\ InitRest

\* The number of characters of s that are not the digit "1"
Noise(s) == Len(SelectSeq(s, LAMBDA c : c # "1"))

\* normalize_rut_value(x) on the string typed so far, one more character typed
TypeRut(c) ==
    /\ rutIn.isStr
    /\ Len(rutIn.s) < MaxRutLen
    /\ Noise(rutIn.s \o <<c>>) <= MaxNoise
    /\ rutIn' = PyStr(rutIn.s \o <<c>>)
    /\ rutOut' = normalize_rut_value(rutIn')
    /\ UNCHANGED <<raw, pc, loaded, call, run, actText, actCfg, actFlag, disk, threads>>

\* normalize_rut_value(None)
NormalizeNone ==
    /\ rutIn.isStr
    /\ rutIn' = PyNone
    /\ rutOut' = normalize_rut_value(rutIn')
    /\ UNCHANGED <<raw, pc, loaded, call, run, actText, actCfg, actFlag, disk, threads>>

\* format_rut(rut) of the normalized ID, and normalize_rut_value of the
\* display form it returns
FormatRut ==
    /\ call.op = "none"
    /\ rutOut # <<>>
    /\ rutIn' = PyStr(format_rut(rutOut))
    /\ rutOut' = normalize_rut_value(rutIn')
    /\ call' = [NoCall EXCEPT !.op = "format_rut"]
    /\ UNCHANGED <<raw, pc, loaded, run, actText, actCfg, actFlag, disk, threads>>

\* format_rut(rut) of the string typed so far, or of None
FormatTyped ==
    /\ call.op = "none"
    /\ rutOut' = IF rutIn.isStr THEN format_rut(rutIn.s) ELSE <<>>
    /\ call' = [NoCall EXCEPT !.op = "format_rut_typed"]
    /\ UNCHANGED <<raw, pc, loaded, run, rutIn, actText, actCfg, actFlag, disk, threads>>

NextRut == (\E c \in RutAlphabet : TypeRut(c)) \/ NormalizeNone \/ FormatRut

NextFormat == (\E c \in RutAlphabet : TypeRut(c)) \/ NormalizeNone \/ FormatTyped

\* Every string given to format_rut
SpecFormat == InitTyping /\ [][NextFormat]_vars

\* Every string given to normalize_rut_value
SpecRut == InitTyping /\ [][NextRut]_vars

\* classify_activity_flag(text, cfg) with a configuration loaded
LoadFlagConfig(cfg) ==
    /\ actText = PyStr(<<>>)
    /\ actCfg = Availability(<<>>, <<>>, <<>>, <<>>)
    /\ actCfg' = cfg
    /\ actFlag' = classify_activity_flag(actText, cfg)
    /\ UNCHANGED <<actText, raw, pc, loaded, call, run, rutIn, rutOut, disk, threads>>

\* classify_activity_flag(text, cfg) on the text typed so far, one more
\* character typed
TypeText(c) ==
    /\ actText.isStr
    /\ Len(actText.s) < MaxTextLen
    /\ actText' = PyStr(actText.s \o <<c>>)
    /\ actFlag' = classify_activity_flag(actText', actCfg)
    /\ UNCHANGED <<actCfg, raw, pc, loaded, call, run, rutIn, rutOut, disk, threads>>

\* classify_activity_flag(None, cfg)
ClassifyNone ==
    /\ actText.isStr
    /\ actText' = PyNone
    /\ actFlag' = classify_activity_flag(actText', actCfg)
    /\ UNCHANGED <<actCfg, raw, pc, loaded, call, run, rutIn, rutOut, disk, threads>>

\* classify_activity_flag(text, cfg) on the text typed so far with its
\* character at i written another way: in the other case, or with or without
\* its accent
Respell(i, c) ==
    /\ actText.isStr
    /\ i \in 1..Len(actText.s)
    /\ c # actText.s[i]
    /\ FoldChar(LowerChar(c)) = FoldChar(LowerChar(actText.s[i]))
    /\ actText' = PyStr([actText.s EXCEPT ![i] = c])
    /\ actFlag' = classify_activity_flag(actText', actCfg)
    /\ UNCHANGED <<actCfg, raw, pc, loaded, call, run, rutIn, rutOut, disk, threads>>

NextFlag ==
    \/ \E cfg \in FlagCfgPool : LoadFlagConfig(cfg)
    \/ \E c \in TextAlphabet : TypeText(c)
    \/ ClassifyNone

\* Every text and configuration given to classify_activity_flag
SpecFlag == InitTyping /\ [][NextFlag]_vars

NextRespell ==
    \/ NextFlag
    \/ \E i \in 1..MaxTextLen, c \in RespellAlphabet : Respell(i, c)

\* Every text given to classify_activity_flag, and its other spellings
SpecRespell == InitTyping /\ [][NextRespell]_vars

\* load_valid_ruts(path) on the allow-list file csv
LoadValidRuts(csv) ==
    /\ call.op = "none"
    /\ call' = [NoCall EXCEPT !.op = "load_valid_ruts", !.rutsCsv = csv,
                              !.rutsFile = [exists |-> TRUE, valid |-> load_valid_ruts(csv)]]
    /\ UNCHANGED <<raw, pc, loaded, run, rutIn, rutOut, actText, actCfg, actFlag, disk, threads>>

NextRuts == \E csv \in RutsCsvPool : LoadValidRuts(csv)

\* Every allow-list file given to load_valid_ruts
SpecRuts == InitTyping /\ [][NextRuts]_vars

\* main with --use-ml, from the training or loading of the classifier on: ml
\* is the ActivityClassifier, and classify_all(df, cfg, ml=ml,
\* date_range=(start, end))
MainUseMl(ml, date_range, today) ==
    /\ pc = "loaded"
    /\ run' = RunClassified(EmptyTable, loaded.df, EmptyTable, EmptyTable,
                            classify_all(loaded.df, DEFAULT_CFG, ml, date_range, today))
    /\ call' = [NoCall EXCEPT !.op = "main_use_ml", !.ml = ml,
                              !.date_range = date_range, !.today = today]
    /\ pc' = IF run'.err = "none" THEN "done" ELSE "failed"
    /\ UNCHANGED <<raw, loaded, rutIn, rutOut, actText, actCfg, actFlag, disk, threads>>

NextMl ==
    \/ LoadDataset
    \/ \E f \in {0, 1}, date_range \in MlRangePool \ {NoRange}, today \in TodayPool :
          MainUseMl(MlActivityClassifier(f), date_range, today)

\* Runs of main with --use-ml
SpecMl == Init /\ [][NextMl]_vars

\* main with --ruts-file: the allow-list step and classify_all on what it
\* leaves (the step is skipped when the file is missing or gives no ID)
MainRutsFile(rutsFile, date_range, today) ==
    /\ pc = "loaded"
    /\ run' = RunClassified(ValidRows(RenormalizeRut(loaded.df),
                                      rutsFile.exists /\ rutsFile.valid # {}, rutsFile.valid),
                            ValidRows(RenormalizeRut(loaded.df),
                                      rutsFile.exists /\ rutsFile.valid # {}, rutsFile.valid),
                            EmptyTable, EmptyTable,
                            classify_all(ValidRows(RenormalizeRut(loaded.df),
                                                   rutsFile.exists /\ rutsFile.valid # {},
                                                   rutsFile.valid),
                                         DEFAULT_CFG, MlNone, date_range, today))
    /\ call' = [NoCall EXCEPT !.op = "main_ruts_file", !.rutsFile = rutsFile,
                              !.date_range = date_range, !.today = today]
    /\ pc' = IF run'.err = "none" THEN "done" ELSE "failed"
    /\ UNCHANGED <<raw, loaded, rutIn, rutOut, actText, actCfg, actFlag, disk, threads>>

NextAllow ==
    \/ LoadDataset
    \/ \E opts \in AllowOptsPool, rutsFile \in AllowListPool, today \in TodayPool :
          RunPipeline(opts, rutsFile, DEFAULT_CFG, today)
    \/ \E rutsFile \in AllowListPool, today \in TodayPool :
          MainRutsFile(rutsFile, DateRange(1, 2), today)

\* Runs of the desktop form and of main with an allow-list file
SpecAllow == Init /\ [][NextAllow]_vars

\* The thread t after the step that takes it to position p
At(t, p) == [threads[t] EXCEPT !.pc = p]

\* MainUI.on_run: reads the form into RunOptions and starts run_pipeline in
\* a new thread; the first step is the downloads when the box is ticked
on_run(t, download, filter) ==
    /\ threads[t].kind = "none"
    /\ threads' = [threads EXCEPT ![t] =
          [NoThread EXCEPT !.kind = "run", !.download = download,
                           !.filter = filter,
                           !.asset = IF download THEN 1 ELSE 0,
                           !.pc = IF download THEN "unlink" ELSE "config"]]
    /\ UNCHANGED <<raw, pc, loaded, call, run, rutIn, rutOut, actText, actCfg,
                   actFlag, disk>>

\* MainUI.on_download: starts the three downloads in a new thread
on_download(t) ==
    /\ threads[t].kind = "none"
    /\ threads' = [threads EXCEPT ![t] =
          [NoThread EXCEPT !.kind = "download", !.download = TRUE,
                           !.asset = 1, !.pc = "unlink"]]
    /\ UNCHANGED <<raw, pc, loaded, call, run, rutIn, rutOut, actText, actCfg,
                   actFlag, disk>>

\* Where a thread goes when gh_download_asset returns: to the next asset,
\* then (after unzip_if_needed) to the rest of run_pipeline or to the end
AfterAsset(th) ==
    IF th.asset < Len(Assets)
    THEN [th EXCEPT !.asset = th.asset + 1, !.pc = "unlink"]
    ELSE [th EXCEPT !.asset = 0,
                    !.pc = IF th.kind = "run" THEN "config" ELSE "done"]

\* gh_download_asset, force = True: `if dst.exists(): dst.unlink()`, with
\* the exception of a failed unlink swallowed. The unlink can fail only
\* while a writer holds the file open
Unlink(t, ok) ==
    /\ threads[t].pc = "unlink"
    /\ ok \/ disk[Assets[threads[t].asset]].state = "writing"
    /\ disk' = IF disk[Assets[threads[t].asset]].state # "absent" /\ ok
               THEN [disk EXCEPT ![Assets[threads[t].asset]] = File("absent", t)]
               ELSE disk
    /\ threads' = [threads EXCEPT ![t] = At(t, "get")]
    /\ UNCHANGED <<raw, pc, loaded, call, run, rutIn, rutOut, actText, actCfg,
                   actFlag>>

\* gh_download_asset: the release lookup and the asset's GET; on any failure
\* it returns False and leaves the file as the unlink left it
Get(t, ok) ==
    /\ threads[t].pc = "get"
    /\ threads' = [threads EXCEPT ![t] =
          IF ok THEN At(t, "write") ELSE AfterAsset(threads[t])]
    /\ UNCHANGED <<raw, pc, loaded, call, run, rutIn, rutOut, actText, actCfg,
                   actFlag, disk>>

\* gh_download_asset: dst.write_bytes opens the file, which creates or
\* truncates it
WriteBytes(t) ==
    /\ threads[t].pc = "write"
    /\ disk' = [disk EXCEPT ![Assets[threads[t].asset]] = File("writing", t)]
    /\ threads' = [threads EXCEPT ![t] = At(t, "close")]
    /\ UNCHANGED <<raw, pc, loaded, call, run, rutIn, rutOut, actText, actCfg,
                   actFlag>>

\* gh_download_asset: write_bytes finishes and closes. The path holds the
\* whole file unless another thread has unlinked it or reopened it since
Close(t) ==
    /\ threads[t].pc = "close"
    /\ disk' = IF disk[Assets[threads[t].asset]] = File("writing", t)
               THEN [disk EXCEPT ![Assets[threads[t].asset]] = File("present", t)]
               ELSE disk
    /\ threads' = [threads EXCEPT ![t] = AfterAsset(threads[t])]
    /\ UNCHANGED <<raw, pc, loaded, call, run, rutIn, rutOut, actText, actCfg,
                   actFlag>>

\* run_pipeline steps 2 and 3: load_config, then FileNotFoundError when
\* disp_path.exists() is false
CheckDataset(t) ==
    /\ threads[t].pc = "config"
    /\ threads' = [threads EXCEPT ![t] =
          IF disk.disp.state = "absent"
          THEN [threads[t] EXCEPT !.pc = "failed", !.err = "FileNotFoundError"]
          ELSE At(t, "load_dataset")]
    /\ UNCHANGED <<raw, pc, loaded, call, run, rutIn, rutOut, actText, actCfg,
                   actFlag, disk>>

\* run_pipeline step 3: load_dataset reads the file as it is now. No file
\* gives None and a truncated file may give no table (empty = TRUE) or the
\* rows written so far; None or an empty table raises RuntimeError
ReadDataset(t, empty) ==
    /\ threads[t].pc = "load_dataset"
    /\ threads' = [threads EXCEPT ![t] =
          IF \/ disk.disp.state = "absent"
             \/ disk.disp.state = "writing" /\ empty
          THEN [threads[t] EXCEPT !.pc = "failed", !.err = "RuntimeError",
                                  !.sawDisp = disk.disp]
          ELSE [threads[t] EXCEPT !.pc = "filter", !.sawDisp = disk.disp]]
    /\ UNCHANGED <<raw, pc, loaded, call, run, rutIn, rutOut, actText, actCfg,
                   actFlag, disk>>

\* run_pipeline step 5: `if opts.filter_valid_ruts and ruts_path.exists()`;
\* without the file the step is skipped and nothing is said
CheckRuts(t) ==
    /\ threads[t].pc = "filter"
    /\ threads' = [threads EXCEPT ![t] =
          IF ~threads[t].filter THEN At(t, "save_norm")
          ELSE IF disk.ruts.state = "absent"
          THEN [threads[t] EXCEPT !.pc = "save_norm", !.sawRuts = disk.ruts]
          ELSE At(t, "load_valid_ruts")]
    /\ UNCHANGED <<raw, pc, loaded, call, run, rutIn, rutOut, actText, actCfg,
                   actFlag, disk>>

\* run_pipeline step 5: load_valid_ruts reads the file as it is now (no
\* file, or no table in it, is an empty set and the filter is skipped)
ReadRuts(t) ==
    /\ threads[t].pc = "load_valid_ruts"
    /\ threads' = [threads EXCEPT ![t] =
          [threads[t] EXCEPT !.pc = "save_norm", !.sawRuts = disk.ruts]]
    /\ UNCHANGED <<raw, pc, loaded, call, run, rutIn, rutOut, actText, actCfg,
                   actFlag, disk>>

\* run_pipeline steps 9, 11 and 12 write their files under fixed names in
\* OUT_DIR: the disk after thread t has written `file`
Saved(t, file) == [disk EXCEPT ![file] = File("present", t)]

\* Step 9: df.to_csv(OUT_DIR / "disponibilidad_normalizada.csv")
SaveNorm(t) ==
    /\ threads[t].pc = "save_norm"
    /\ disk' = Saved(t, "norm")
    /\ threads' = [threads EXCEPT ![t] = At(t, "save_sin_carga")]
    /\ UNCHANGED <<raw, pc, loaded, call, run, rutIn, rutOut, actText, actCfg,
                   actFlag>>

\* Step 11: save_sin_carga and build_html_sin_carga
SaveSinCarga(t) ==
    /\ threads[t].pc = "save_sin_carga"
    /\ disk' = Saved(t, "sin_carga")
    /\ threads' = [threads EXCEPT ![t] = At(t, "save_outputs")]
    /\ UNCHANGED <<raw, pc, loaded, call, run, rutIn, rutOut, actText, actCfg,
                   actFlag>>

\* Step 12: save_outputs and build_html_report (resumen stands for the
\* files of this step, written one after the other)
SaveOutputs(t) ==
    /\ threads[t].pc = "save_outputs"
    /\ disk' = Saved(t, "resumen")
    /\ threads' = [threads EXCEPT ![t] = At(t, "return")]
    /\ UNCHANGED <<raw, pc, loaded, call, run, rutIn, rutOut, actText, actCfg,
                   actFlag>>

\* run_pipeline returns the paths and on_run's task keeps them in
\* self.outputs; reported = who wrote what is at each path at that moment
Return(t) ==
    /\ threads[t].pc = "return"
    /\ threads' = [threads EXCEPT ![t] =
          [threads[t] EXCEPT !.pc = "done",
                             !.reported = [f \in Outputs |-> disk[f].by]]]
    /\ UNCHANGED <<raw, pc, loaded, call, run, rutIn, rutOut, actText, actCfg,
                   actFlag, disk>>

NextThreads ==
    \/ \E t \in Threads, download \in BOOLEAN, filter \in BOOLEAN :
          on_run(t, download, filter)
    \/ \E t \in Threads : on_download(t)
    \/ \E t \in Threads, ok \in BOOLEAN : Unlink(t, ok)
    \/ \E t \in Threads, ok \in BOOLEAN : Get(t, ok)
    \/ \E t \in Threads : WriteBytes(t)
    \/ \E t \in Threads : Close(t)
    \/ \E t \in Threads : CheckDataset(t)
    \/ \E t \in Threads, empty \in BOOLEAN : ReadDataset(t, empty)
    \/ \E t \in Threads : CheckRuts(t)
    \/ \E t \in Threads : ReadRuts(t)
    \/ \E t \in Threads : SaveNorm(t)
    \/ \E t \in Threads : SaveSinCarga(t)
    \/ \E t \in Threads : SaveOutputs(t)
    \/ \E t \in Threads : Return(t)

\* The desktop form with its buttons pressed in any order and its threads
\* scheduled in any order
SpecThreads == InitTyping /\ [][NextThreads]_vars

\* load_dataset(csv_url = ...) when there is no local file
LoadDatasetUrl ==
    /\ pc = "input"
    /\ loaded' = load_dataset_from_url(raw)
    /\ pc' = IF loaded'.err = "none" THEN "loaded" ELSE "failed"
    /\ call' = [NoCall EXCEPT !.op = "load_dataset_url"]
    /\ UNCHANGED <<raw, run, rutIn, rutOut, actText, actCfg, actFlag, disk, threads>>

InitLoad == raw \in LayoutTables /\ InitRest

NextLoad == LoadDataset \/ LoadDatasetUrl

\* Dataset files of several layouts, loaded from a local file or from a URL
SpecLoad == InitLoad /\ [][NextLoad]_vars

NextWindow ==
    \E opts \in WindowFormPool, today \in WindowTodayPool :
        RunPipeline(opts, NoRutsFile, DEFAULT_CFG, today)

\* Runs of the form over every choice of its window fields
SpecWindow == InitDays /\ [][NextWindow]_vars

NextRules ==
    \/ LoadDataset
    \/ \E cfg \in RulesCfgPool, date_range \in RulesRangePool, today \in TodayPool :
          ClassifyAll(cfg, MlNone, date_range, today)

\* classify_all under rules of every sign and windows of many lengths
SpecRules == Init /\ [][NextRules]_vars

\* main: cfg = load_config(config); classify_all(df, cfg, ml=None, date_range)
ClassifyConfigured(config, date_range, today) ==
    IF config.err = "none"
    THEN RunClassified(EmptyTable, loaded.df, EmptyTable, EmptyTable,
                       classify_all(loaded.df, config.cfg, MlNone, date_range, today))
    ELSE Raised(config.err)

LoadConfig(file, date_range, today) ==
    /\ pc = "loaded"
    /\ run' = ClassifyConfigured(load_config(file), date_range, today)
    /\ call' = [NoCall EXCEPT !.op = "load_config", !.cfg = load_config(file).cfg,
                              !.cfgFile = file, !.date_range = date_range,
                              !.today = today]
    /\ pc' = IF run'.err = "none" THEN "done" ELSE "failed"
    /\ UNCHANGED <<raw, loaded, rutIn, rutOut, actText, actCfg, actFlag, disk, threads>>

\* cfg = load_config(path), at any time and any number of times
LoadConfigFile(file) ==
    /\ call' = [NoCall EXCEPT !.op = "load_config_file", !.cfg = load_config(file).cfg,
                              !.cfgFile = file]
    /\ run' = Raised(load_config(file).err)
    /\ UNCHANGED <<raw, pc, loaded, rutIn, rutOut, actText, actCfg, actFlag, disk, threads>>

NextDefaults == \E file \in ConfigSectionsPool : LoadConfigFile(file)

\* Every sequence of calls of load_config
SpecDefaults == InitTyping /\ [][NextDefaults]_vars

NextConfig ==
    \/ LoadDataset
    \/ \E file \in ConfigFilePool, date_range \in ConfigRangePool, today \in TodayPool :
          LoadConfig(file, date_range, today)

\* Runs of main with the configuration read from config.yml
SpecConfig == Init /\ [][NextConfig]_vars

\* build_sin_carga(df, date_range), df being the loaded dataset without the
\* columns dropped
BuildSinCarga(dropped, date_range) ==
    /\ pc = "loaded"
    /\ run' = Run(build_sin_carga_of(DropColumns(loaded.df, dropped), date_range).err,
                  EmptyTable, DropColumns(loaded.df, dropped), EmptyTable,
                  build_sin_carga_of(DropColumns(loaded.df, dropped), date_range).table,
                  NoResult)
    /\ call' = [NoCall EXCEPT !.op = "build_sin_carga", !.date_range = date_range]
    /\ pc' = IF run'.err = "none" THEN "done" ELSE "failed"
    /\ UNCHANGED <<raw, loaded, rutIn, rutOut, actText, actCfg, actFlag, disk, threads>>

InitSinCarga == raw \in SinCargaTables /\ InitRest

NextSinCarga ==
    \/ LoadDataset
    \/ \E dropped \in DroppedPool, date_range \in SinCargaRangePool :
          BuildSinCarga(dropped, date_range)

\* The sin-carga extraction on datasets with and without some columns
SpecSinCarga == InitSinCarga /\ [][NextSinCarga]_vars

\* ------------------------------------------------------------------- claims
\* The rows of the summary and of the detail table of the run, the thresholds
\* and the window its meta reports, and the rows given to classify_all.
Resumen == run.res.resumen.rows

DetalleRows == run.res.detalle.rows

Umbrales == run.res.meta.umbrales

Rango == run.res.meta.rango

Handed == run.handed.rows

\* w occurs in t as a substring
IsSubstring(w, t) ==
    \E i \in 0..(Len(t) - Len(w)) : \A j \in 1..Len(w) : t[i + j] = w[j]

\* The lowercased, trimmed text contains a whitelist keyword of cfg
HasWhitelisted(text, cfg) ==
    \E k \in 1..Len(cfg.availability.whitelist_keywords) :
        IsSubstring(cfg.availability.whitelist_keywords[k], StrLower(Strip(text)))

\* The flag the run is to give a row with activity act: the classifier's
\* value when it returned one, the rule's otherwise
ExpectedFlag(act) ==
    IF call.ml.kind = "const" THEN call.ml.flag
    ELSE IF act # <<>> /\ HasWhitelisted(act, call.cfg) THEN 1 ELSE 0

\* The department of the row passes the filter of the run's configuration
DeptAllowed(row) ==
    \/ call.cfg.filters.allowed_departments = <<>>
    \/ \E k \in 1..Len(call.cfg.filters.allowed_departments) :
          StrUpper(call.cfg.filters.allowed_departments[k]) = StrUpper(row[ColDepartamento])

\* The date lies in the closed window of the run
InWindowOfCall(fecha) ==
    IF call.op = "classify_all"
    THEN \/ ~call.date_range.given
         \/ call.date_range.start <= fecha /\ fecha <= call.date_range.end
    ELSE Rango[1] <= fecha /\ fecha <= Rango[2]

\* The rows given to classify_all that pass the department filter and are
\* dated in the window, and among them those of one ID
Counted == {i \in 1..Len(Handed) :
              DeptAllowed(Handed[i]) /\ InWindowOfCall(Handed[i][ColFecha])}

CountedOf(rut) == {i \in Counted : Handed[i][ColRUT] = rut}

FlaggedOf(rut) == {i \in CountedOf(rut) : ExpectedFlag(Handed[i][ColActividad]) = 1}

FlaggedDates(rut) == {Handed[i][ColFecha] : i \in FlaggedOf(rut)}

\* The days d, d+1, ..., d+k-1 are all in S
IsRun(S, d, k) == \A j \in 0..(k - 1) : d + j \in S

\* The length of the longest run of consecutive days in S
LongestRun(S) ==
    IF S = {} THEN 0
    ELSE CHOOSE k \in 1..Cardinality(S) :
            /\ \E d \in S : IsRun(S, d, k)
            /\ ~ \E d \in S : IsRun(S, d, k + 1)

HighCase(r) ==
    \/ r[ColDiasDisponibles] >= Umbrales.th_high_days
    \/ r[ColStreakMax] >= Umbrales.th_streak

LowCase(r) == r[ColDiasDisponibles] <= Umbrales.th_low_days

\* C1: every summary row classify_all produces has criticidad ALTA, MEDIA or
\* BAJA, first match wins: ALTA if dias_disponibles >= th_high_days or
\* streak_max >= th_streak, else BAJA if dias_disponibles <= th_low_days, else
\* MEDIA; and eight non-adjacent available days in a 30-day window with the
\* base thresholds 7/3/4 give ALTA (26.7 percent, streak 1).
C1_CriticidadFirstMatch ==
    pc = "done" =>
        /\ \A i \in 1..Len(Resumen) :
              /\ Resumen[i][ColCriticidad] \in {ALTA, MEDIA, BAJA}
              /\ (Resumen[i][ColCriticidad] = ALTA) <=> HighCase(Resumen[i])
              /\ (Resumen[i][ColCriticidad] = BAJA)
                    <=> (~HighCase(Resumen[i]) /\ LowCase(Resumen[i]))
              /\ (Resumen[i][ColCriticidad] = MEDIA)
                    <=> (~HighCase(Resumen[i]) /\ ~LowCase(Resumen[i]))
        /\ ( /\ raw = DaysTable(EightDays)
             /\ call.op = "classify_all"
             /\ call.ml = MlNone
             /\ call.cfg.rules = Rules(7, 3, 4)
             /\ call.date_range = DateRange(1, 30) )
           => /\ Len(Resumen) = 1
              /\ Resumen[1][ColCriticidad] = ALTA
              /\ Resumen[1][ColDiasDisponibles] = 8
              /\ Resumen[1][ColStreakMax] = 1
              /\ Resumen[1][ColPorcDisponible] = 267

\* A summary row that meets a HIGH condition and also has
\* dias_disponibles <= th_low_days, and is ALTA
C1_Witness ==
    /\ pc = "done"
    /\ \E i \in 1..Len(Resumen) :
          /\ HighCase(Resumen[i])
          /\ LowCase(Resumen[i])
          /\ Resumen[i][ColCriticidad] = ALTA

\* C2: the thresholds classify_all applies are the configured ones verbatim
\* when window_days = end - start + 1 is 30 or more; below 30 th_high_days is
\* the ceiling of high_days * window_days / 30 and at least 1, th_low_days the
\* floor of low_days * window_days / 30 and at least 0, th_streak the smaller
\* of high_streak and window_days; a 20-day window with high_days 7 gives 5.
C2_ThresholdScaling ==
    (pc = "done" /\ Resumen # <<>>) =>
        /\ Umbrales.window_days = Rango[2] - Rango[1] + 1
        /\ (call.op = "classify_all" /\ call.date_range.given)
              => Rango = <<call.date_range.start, call.date_range.end>>
        /\ Umbrales.window_days >= 30 =>
              /\ Umbrales.th_high_days = call.cfg.rules.high_days
              /\ Umbrales.th_low_days = call.cfg.rules.low_days
              /\ Umbrales.th_streak = call.cfg.rules.high_streak
        /\ Umbrales.window_days < 30 =>
              /\ Umbrales.th_high_days >= 1
              /\ 30 * Umbrales.th_high_days
                    >= call.cfg.rules.high_days * Umbrales.window_days
              /\ \/ Umbrales.th_high_days = 1
                 \/ 30 * (Umbrales.th_high_days - 1)
                       < call.cfg.rules.high_days * Umbrales.window_days
              /\ Umbrales.th_low_days >= 0
              /\ 30 * Umbrales.th_low_days
                    <= call.cfg.rules.low_days * Umbrales.window_days
              /\ 30 * (Umbrales.th_low_days + 1)
                    > call.cfg.rules.low_days * Umbrales.window_days
              /\ Umbrales.th_streak \in {call.cfg.rules.high_streak, Umbrales.window_days}
              /\ Umbrales.th_streak <= call.cfg.rules.high_streak
              /\ Umbrales.th_streak <= Umbrales.window_days
        /\ (Umbrales.window_days = 20 /\ call.cfg.rules.high_days = 7)
              => Umbrales.th_high_days = 5

\* A run over a 20-day window with high_days 7 that produced summary rows
C2_Witness ==
    /\ pc = "done"
    /\ Resumen # <<>>
    /\ Umbrales.window_days = 20
    /\ call.cfg.rules.high_days = 7
    /\ Umbrales.th_high_days = 5

\* C3: streak_max of every summary row is the length of the longest run of
\* calendar-consecutive dates among that ID's available dates in the window
\* (0 when there is none), as _max_consecutive_days computes it from the
\* sorted distinct dates; 2024-01-01, 2024-01-02, 2024-01-04 give 2.
C3_MaxStreakIsLongestRun ==
    pc = "done" =>
        /\ \A i \in 1..Len(Resumen) :
              Resumen[i][ColStreakMax] = LongestRun(FlaggedDates(Resumen[i][ColRUT]))
        /\ ( /\ raw = DaysTable({1, 2, 4})
             /\ call.op = "classify_all"
             /\ call.ml = MlNone
             /\ call.date_range = NoRange )
           => Len(Resumen) = 1 /\ Resumen[1][ColStreakMax] = 2

\* Available dates with a gap of two days after a run of two: the run restarts
C3_Witness ==
    /\ pc = "done"
    /\ Len(Resumen) = 1
    /\ FlaggedDates(Resumen[1][ColRUT]) = {1, 2, 4, 5}
    /\ Resumen[1][ColStreakMax] = 2

\* C4: the summary has exactly one row per distinct ID among the rows given
\* to classify_all that pass the department filter and are dated in the
\* closed window, and dias_disponibles of that row is the number of distinct
\* dates in the window on which the ID has a row with flag 1; rows outside
\* the window change nothing.
C4_OneRowPerIdDistinctDates ==
    pc = "done" =>
        /\ Len(Resumen) = Cardinality({Handed[i][ColRUT] : i \in Counted})
        /\ {Resumen[i][ColRUT] : i \in 1..Len(Resumen)}
              = {Handed[i][ColRUT] : i \in Counted}
        /\ \A i \in 1..Len(Resumen) :
              /\ Resumen[i][ColDiasDisponibles]
                    = Cardinality(FlaggedDates(Resumen[i][ColRUT]))
              /\ \E j \in CountedOf(Resumen[i][ColRUT]) :
                    /\ Handed[j][ColColaborador] = Resumen[i][ColColaborador]
                    /\ Handed[j][ColDepartamento] = Resumen[i][ColDepartamento]

\* Two flagged rows of one ID on one date, counted once
C4_Witness ==
    /\ pc = "done"
    /\ \E i \in 1..Len(Resumen) :
          /\ Cardinality(FlaggedOf(Resumen[i][ColRUT])) = 2
          /\ Resumen[i][ColDiasDisponibles] = 1

\* C5: classify_activity_flag returns 0 or 1 for every text and
\* configuration; 0 for an empty or non-text input; otherwise 1 exactly when
\* the lowercased, trimmed text contains a whitelist keyword, whatever the
\* blacklist and neutral lists hold.
C5_FlagIsWhitelistMatch ==
    /\ actFlag \in {0, 1}
    /\ (~actText.isStr \/ actText.s = <<>>) => actFlag = 0
    /\ (actText.isStr /\ actText.s # <<>>)
          => ((actFlag = 1) <=> HasWhitelisted(actText.s, actCfg))

\* A text flagged 1 that also starts with a blacklist prefix, equals a
\* blacklist phrase and contains a neutral keyword
C5_Witness ==
    /\ actText.isStr
    /\ actFlag = 1
    /\ \E k \in 1..Len(actCfg.availability.blacklist_prefixes) :
          StartsWith(StrLower(Strip(actText.s)), actCfg.availability.blacklist_prefixes[k])
    /\ \E k \in 1..Len(actCfg.availability.blacklist_exact) :
          StrLower(Strip(actText.s)) = actCfg.availability.blacklist_exact[k]
    /\ \E k \in 1..Len(actCfg.availability.neutral_keywords) :
          IsSubstring(actCfg.availability.neutral_keywords[k], StrLower(Strip(actText.s)))

\* C6: when the injected classifier's predict_flags raises, classify_all
\* still returns and every row's disp_flag is the rule-based flag of its
\* activity; when it does not raise, every row's disp_flag is its value.
C6_ClassifierFallback ==
    /\ (call.op = "classify_all" /\ call.ml.kind = "raises") =>
          /\ pc = "done"
          /\ run.err = "none"
          /\ \A i \in 1..Len(DetalleRows) :
                DetalleRows[i][ColDispFlag]
                   = IF /\ DetalleRows[i][ColActividad] # <<>>
                        /\ HasWhitelisted(DetalleRows[i][ColActividad], call.cfg)
                     THEN 1 ELSE 0
    /\ (call.op = "classify_all" /\ call.ml.kind = "const") =>
          /\ pc = "done"
          /\ \A i \in 1..Len(DetalleRows) : DetalleRows[i][ColDispFlag] = call.ml.flag

\* A run whose classifier was called and raised, with a row flagged 1 by rule
C6_Witness ==
    /\ call.op = "classify_all"
    /\ call.ml.kind = "raises"
    /\ run.res.mlCalls = 1
    /\ \E i \in 1..Len(DetalleRows) : DetalleRows[i][ColDispFlag] = 1

\* C7: when no row given to classify_all passes the filter and lies in the
\* window (no row at all, none in the window, or start > end), classify_all
\* raises nothing and returns a summary without rows that has the nine
\* summary columns and a detail table without rows that has the six dataset
\* columns and disp_flag; the classifier is not called.
C7_EmptyWindowResult ==
    (call.op \in {"classify_all", "run_pipeline"} /\ run.handed.cols # <<>>
        /\ Counted = {}) =>
        /\ pc = "done"
        /\ run.err = "none"
        /\ run.res.resumen.rows = <<>>
        /\ Len(run.res.resumen.cols) = 9
        /\ Range(run.res.resumen.cols)
              = {ColRUT, ColColaborador, ColDepartamento, ColCiudad, ColDiasVentana,
                 ColDiasDisponibles, ColPorcDisponible, ColStreakMax, ColCriticidad}
        /\ run.res.detalle.rows = <<>>
        /\ Len(run.res.detalle.cols) = 7
        /\ Range(run.res.detalle.cols) = Range(EXPECTED_COLS) \cup {ColDispFlag}
        /\ run.res.mlCalls = 0

\* A run with a classifier injected, rows in the dataset, and a window whose
\* start is after its end
C7_Witness ==
    /\ pc = "done"
    /\ call.op = "classify_all"
    /\ call.ml.kind # "none"
    /\ call.date_range = DateRange(2, 1)
    /\ Handed # <<>>

\* digits-checkdigit: six to nine digits, a hyphen, a digit or K
IsCanonicalRut(t) ==
    /\ Len(t) \in 8..11
    /\ \A i \in 1..(Len(t) - 2) : t[i] \in Range(DigitSeq)
    /\ t[Len(t) - 1] = "-"
    /\ t[Len(t)] \in Range(DigitSeq) \cup {"K"}

\* What is left of s without every character but digits and k/K
KeptChars(s) == SelectSeq(s, LAMBDA c : c \in Range(DigitSeq) \cup {"k", "K"})

\* The body kept is six to nine digits
BodyIsValid(kept) ==
    /\ Len(kept) - 1 \in 6..9
    /\ \A i \in 1..(Len(kept) - 1) : kept[i] \in Range(DigitSeq)

\* C8: normalize_rut_value returns the empty string or a string matching
\* ^\d{6,9}-[0-9K]$: empty for None and when fewer than two characters are
\* left after removing all but digits and k/K or the body is not six to nine
\* digits, else the body, a hyphen and the last character uppercased.
C8_NormalizedRutForm ==
    /\ rutOut = <<>> \/ IsCanonicalRut(rutOut)
    /\ ~rutIn.isStr => rutOut = <<>>
    /\ rutIn.isStr =>
          rutOut = IF Len(KeptChars(rutIn.s)) < 2 \/ ~BodyIsValid(KeptChars(rutIn.s))
                   THEN <<>>
                   ELSE SubSeq(KeptChars(rutIn.s), 1, Len(KeptChars(rutIn.s)) - 1)
                           \o <<"-">>
                           \o StrUpper(<<KeptChars(rutIn.s)[Len(KeptChars(rutIn.s))]>>)

\* A string with punctuation whose last character kept is a lowercase k,
\* normalized to a value ending in K
C8_Witness ==
    /\ rutIn.isStr
    /\ rutOut # <<>>
    /\ "." \in Range(rutIn.s)
    /\ KeptChars(rutIn.s)[Len(KeptChars(rutIn.s))] = "k"
    /\ rutOut[Len(rutOut)] = "K"

\* The ID field of every row is empty or canonical
RutFieldOk(rows) ==
    \A i \in 1..Len(rows) : rows[i][ColRUT] = <<>> \/ IsCanonicalRut(rows[i][ColRUT])

\* C9: in the rows run_pipeline hands to classify_all and to the sin-carga
\* extraction, and in the rows of the summary, detail and sin-carga tables,
\* the ID is the empty string or canonical digits-checkdigit, whatever the
\* options format_rut, filter_valid_ruts and reorder_name_rut.
C9_CanonicalIdEverywhere ==
    (pc = "done" /\ call.op = "run_pipeline") =>
        /\ RutFieldOk(Handed)
        /\ RutFieldOk(run.sin_df.rows)
        /\ RutFieldOk(Resumen)
        /\ RutFieldOk(DetalleRows)

\* C10: a row whose ID does not parse is dropped by the dataset normalizer
\* like a row whose date does not parse: no row of the normalized dataset,
\* of the summary or of the detail table has the empty ID, and no error is
\* raised for it.
C10_UnparsedIdDropped ==
    /\ (call.op = "load_dataset" /\ raw.cols = EXPECTED_COLS) =>
          /\ loaded.err = "none"
          /\ \A i \in 1..Len(loaded.df.rows) : loaded.df.rows[i][ColRUT] # <<>>
    /\ pc = "done" =>
          /\ \A i \in 1..Len(Resumen) : Resumen[i][ColRUT] # <<>>
          /\ \A i \in 1..Len(DetalleRows) : DetalleRows[i][ColRUT] # <<>>

\* The place of a criticality label in the order HIGH, MEDIUM, LOW
CritRank(c) == IF c = ALTA THEN 1 ELSE IF c = MEDIA THEN 2 ELSE 3

\* Summary row a is not after summary row b: higher criticality, or the same
\* and more available days, or the same and a longer streak, or the same and
\* a percentage not smaller
NotAfter(a, b) ==
    \/ CritRank(a[ColCriticidad]) < CritRank(b[ColCriticidad])
    \/ /\ a[ColCriticidad] = b[ColCriticidad]
       /\ \/ a[ColDiasDisponibles] > b[ColDiasDisponibles]
          \/ /\ a[ColDiasDisponibles] = b[ColDiasDisponibles]
             /\ \/ a[ColStreakMax] > b[ColStreakMax]
                \/ /\ a[ColStreakMax] = b[ColStreakMax]
                   /\ a[ColPorcDisponible] >= b[ColPorcDisponible]

MissingInFile ==
    {c \in Range(EXPECTED_COLS) : \A i \in 1..Len(raw.cols) : MapHeader(raw.cols[i]) # c}

\* C11: whenever a dataset is loaded, from a local file or from a URL, and a
\* canonical column is absent after header mapping, the load fails with the
\* schema error that lists the missing columns and the columns detected, and
\* never with a generic load failure or an empty result.
C11_SchemaErrorReported ==
    (call.op \in {"load_dataset", "load_dataset_url"} /\ MissingInFile # {}) =>
        /\ pc = "failed"
        /\ loaded.err = "ValueError"
        /\ Range(loaded.missing) = MissingInFile
        /\ loaded.detected = [i \in 1..Len(raw.cols) |-> MapHeader(raw.cols[i])]

\* The positions of the columns of the dataset file whose header names the ID
RutColumnsOfFile ==
    SelectSeq([i \in 1..Len(raw.cols) |-> i],
              LAMBDA i : StrLower(Strip(raw.cols[i])) = <<"r","u","t">>)

\* The cell is null or holds nothing but blanks
IsBlankCell(cell) == ~cell.isStr \/ \A j \in 1..Len(cell.s) : cell.s[j] = " "

\* The first cell of the row, left to right among the positions idxs, that is
\* not null or blank; None when there is none
FirstPopulated(row, idxs) ==
    IF \A k \in 1..Len(idxs) : IsBlankCell(row[idxs[k]]) THEN PyNone
    ELSE row[idxs[CHOOSE k \in 1..Len(idxs) :
                    /\ ~IsBlankCell(row[idxs[k]])
                    /\ \A j \in 1..(k - 1) : IsBlankCell(row[idxs[j]])]]

\* C17: when more than one column of the file maps to the ID column, the
\* normalized dataset has one ID column, and its value in each row is the
\* normalization of the first, left to right, of the duplicate columns' values
\* that is not null or blank in that row; a later column is used only where
\* every earlier one is null or blank.
C17_DuplicateIdColumns ==
    (call.op \in {"load_dataset", "load_dataset_url"} /\ Len(RutColumnsOfFile) > 1) =>
        /\ loaded.err = "none"
        /\ Len(ColIdxs(loaded.df.cols, ColRUT)) = 1
        /\ Len(loaded.df.rows) = Len(raw.rows)
        /\ \A r \in 1..Len(raw.rows) :
              loaded.df.rows[r][ColRUT]
                 = normalize_rut_value(FirstPopulated(raw.rows[r], RutColumnsOfFile))

\* A file with three ID columns loaded: in one row the first is null, the
\* second blank and the third populated; in another the first and a later one
\* are populated with different IDs
C17_Witness ==
    /\ call.op = "load_dataset"
    /\ Len(RutColumnsOfFile) = 3
    /\ \E r \in 1..Len(raw.rows) :
          /\ ~raw.rows[r][RutColumnsOfFile[1]].isStr
          /\ raw.rows[r][RutColumnsOfFile[2]] = PyStr(<<" ", " ">>)
          /\ loaded.df.rows[r][ColRUT] = <<"3","3","3","3","3","3","3","-","3">>
    /\ \E r \in 1..Len(raw.rows) :
          /\ ~IsBlankCell(raw.rows[r][RutColumnsOfFile[1]])
          /\ ~IsBlankCell(raw.rows[r][RutColumnsOfFile[3]])
          /\ loaded.df.rows[r][ColRUT] = <<"1","1","1","1","1","1","1","-","K">>

\* Both explicit bounds of the run are given, as dates
BothBoundsGiven == ParseDate(call.opts.start_date).ok /\ ParseDate(call.opts.end_date).ok

\* today of the run: as_of when given, else the current date
TodayOfRun ==
    IF call.opts.as_of.isStr /\ call.opts.as_of.s # <<>>
    THEN ParseDate(call.opts.as_of).date ELSE call.today

\* The month before the month of date d is the month of date s
IsPreviousMonth(s, d) ==
    \/ MonthOf(s).y = MonthOf(d).y /\ MonthOf(s).m = MonthOf(d).m - 1
    \/ MonthOf(s).y = MonthOf(d).y - 1 /\ MonthOf(s).m = 12 /\ MonthOf(d).m = 1

\* C13: the window of a run is the pair of explicit bounds, unchanged and
\* unchecked, exactly when both are given; otherwise it ends today (as_of when
\* given, else the current date) and starts on the 27th of today's month when
\* today.day >= 27, else on the 27th of the previous month (of December of the
\* previous year in January); so the default window has start.day = 27,
\* start <= end and between 1 and 31 days.
C13_WindowOfRun ==
    (call.op = "run_pipeline" /\ pc = "done") =>
        /\ BothBoundsGiven =>
              Rango = <<ParseDate(call.opts.start_date).date,
                        ParseDate(call.opts.end_date).date>>
        /\ ~BothBoundsGiven =>
              /\ Rango[2] = TodayOfRun
              /\ DayOfMonth(Rango[1]) = 27
              /\ Rango[1] <= Rango[2]
              /\ Rango[2] - Rango[1] + 1 \in 1..31
              /\ DayOfMonth(TodayOfRun) >= 27 => MonthOf(Rango[1]) = MonthOf(TodayOfRun)
              /\ DayOfMonth(TodayOfRun) < 27 => IsPreviousMonth(Rango[1], TodayOfRun)

\* A run with only the end bound given and no as_of, on 2024-01-26: the
\* window starts on 2023-12-27 and has 31 days
C13_Witness ==
    /\ call.op = "run_pipeline"
    /\ pc = "done"
    /\ ~call.opts.start_date.isStr
    /\ call.opts.end_date.isStr
    /\ ~call.opts.as_of.isStr
    /\ MonthOf(Rango[1]).y = 2023
    /\ DayOfMonth(Rango[1]) = 27
    /\ Rango[2] - Rango[1] + 1 = 31

\* C14: for every configuration and window, an identity with no available
\* date in the window gets streak_max 0, dias_disponibles 0, porc_disponible
\* 0.0 and criticidad BAJA, never ALTA or MEDIA: the thresholds applied have
\* th_high_days >= 1, th_streak >= 1 and th_low_days >= 0.
C14_NoAvailableDateIsLow ==
    (pc = "done" /\ Resumen # <<>>) =>
        /\ Umbrales.th_high_days >= 1
        /\ Umbrales.th_streak >= 1
        /\ Umbrales.th_low_days >= 0
        /\ \A i \in 1..Len(Resumen) :
              FlaggedDates(Resumen[i][ColRUT]) = {} =>
                  /\ Resumen[i][ColStreakMax] = 0
                  /\ Resumen[i][ColDiasDisponibles] = 0
                  /\ Resumen[i][ColPorcDisponible] = 0
                  /\ Resumen[i][ColCriticidad] = BAJA

\* A run configured with rules that are all zero or negative, with a summary
\* row of an identity that has rows in the window and none available
C14_Witness ==
    /\ pc = "done"
    /\ call.cfg.rules.high_days <= 0
    /\ call.cfg.rules.high_streak <= 0
    /\ call.cfg.rules.low_days < 0
    /\ \E i \in 1..Len(Resumen) :
          /\ CountedOf(Resumen[i][ColRUT]) # {}
          /\ FlaggedDates(Resumen[i][ColRUT]) = {}
          /\ Resumen[i][ColCriticidad] = BAJA

\* C15: threshold scaling is monotonic in the window length: for a window of
\* w days with 2w <= 30, th_high_days and th_low_days for 2w days are not
\* below those for w days (2w = 30 takes the base thresholds verbatim), and
\* th_low_days is never below 0.
C15_ScalingMonotonic ==
    (pc = "done" /\ Resumen # <<>>) =>
        /\ Umbrales.th_low_days >= 0
        /\ 2 * Umbrales.window_days <= 30 =>
              /\ Thresholds(call.cfg.rules, 2 * Umbrales.window_days).th_high_days
                    >= Umbrales.th_high_days
              /\ Thresholds(call.cfg.rules, 2 * Umbrales.window_days).th_low_days
                    >= Umbrales.th_low_days

\* A run over a 15-day window, whose double takes the base thresholds, with
\* both thresholds scaled below their base values
C15_Witness ==
    /\ pc = "done"
    /\ Resumen # <<>>
    /\ Umbrales.window_days = 15
    /\ Umbrales.th_high_days < call.cfg.rules.high_days
    /\ Umbrales.th_low_days < call.cfg.rules.low_days
    /\ Umbrales.th_low_days > 0

\* C16: for every canonical ID c, normalize_rut_value(format_rut(c)) = c: the
\* display form only adds thousands separators to the body, and normalizing
\* it again gives back c.
C16_FormatRoundTrip ==
    [][(call.op = "none" /\ call'.op = "format_rut") =>
          /\ IsCanonicalRut(rutOut)
          /\ rutOut' = rutOut
          /\ SelectSeq(rutIn'.s, LAMBDA c : c # ".") = rutOut]_vars

\* A canonical ID with a nine-digit body and check digit K, displayed with two
\* separators and normalized again
C16_Witness ==
    /\ call.op = "format_rut"
    /\ rutIn = PyStr(<<"1","1","1",".","1","1","1",".","1","1","1","-","K">>)
    /\ rutOut = <<"1","1","1","1","1","1","1","1","1","-","K">>

\* The activity of a row of the dataset is unassigned: null (a NaN cell reads
\* as "nan"), empty after trimming, or one of the markers in any case
IsUnassigned(act) ==
    \/ \A j \in 1..Len(act) : act[j] = " "
    \/ \E m \in {<<"n","u","l","l">>, <<"n","o","n","e">>, <<"n","a","n">>} :
          /\ Len(m) = Len(act)
          /\ \A j \in 1..Len(m) : act[j] \in {m[j], UpperChar(m[j])}

\* The rows given to build_sin_carga that it is to return: unassigned, and
\* dated in the closed window when one is supplied
Expected == {i \in 1..Len(Handed) :
               /\ IsUnassigned(Handed[i][ColActividad])
               /\ call.date_range.given =>
                     /\ call.date_range.start <= Handed[i][ColFecha]
                     /\ Handed[i][ColFecha] <= call.date_range.end}

\* Row x of the sin-carga table is row h of the dataset, cut to its columns
SameRow(x, h) == \A c \in Range(run.sin_df.cols) : x[c] = h[c]

\* C18: build_sin_carga returns exactly the rows given to it whose activity
\* is null, empty after trimming or, ignoring case, one of the markers null,
\* none, nan, and whose date is in the closed window when a window is
\* supplied: no other row, none left out, whatever the department.
C18_SinCargaRows ==
    (call.op = "build_sin_carga" /\ pc = "done") =>
        /\ Len(run.sin_df.rows) = Cardinality(Expected)
        /\ \A k \in 1..Len(run.sin_df.rows) :
              Cardinality({j \in 1..Len(run.sin_df.rows) :
                              run.sin_df.rows[j] = run.sin_df.rows[k]})
                 = Cardinality({i \in Expected : SameRow(run.sin_df.rows[k], Handed[i])})

\* A call with a window on a dataset of two rows of a department outside the
\* allowed ones, one with no activity in the file and one with the marker
\* None on a date outside the window: only the first is returned
C18_Witness ==
    /\ call.op = "build_sin_carga"
    /\ pc = "done"
    /\ call.date_range = DateRange(1, 1)
    /\ Len(raw.rows) = 2
    /\ ~raw.rows[1][6].isStr
    /\ raw.rows[2][6] = PyStr(<<"N","o","n","e">>)
    /\ Len(run.sin_df.rows) = 1
    /\ run.sin_df.rows[1][ColDepartamento] = <<"V","E","N","T","A","S">>
    /\ run.sin_df.rows[1][ColFecha] = 1

\* The rows are in the order of the key: column c ascending
SortedOn(rows, c) ==
    \A k \in 1..(Len(rows) - 1) :
        IF c = ColFecha THEN rows[k][c] <= rows[k + 1][c]
        ELSE ~StrLess(rows[k + 1][c], rows[k][c])

\* C19: the sin-carga table keeps those of the six canonical columns that the
\* input has and is sorted by date, then by collaborator name; when the input
\* lacks a column of the sort key, that key is left out of the sort and
\* build_sin_carga returns a table instead of raising.
C19_SinCargaColumnsAndSort ==
    ( /\ call.op = "build_sin_carga"
      /\ ColActividad \in Range(run.handed.cols)
      /\ call.date_range.given => ColFecha \in Range(run.handed.cols) ) =>
        /\ pc = "done"
        /\ run.err = "none"
        /\ Range(run.sin_df.cols) = Range(EXPECTED_COLS) \cap Range(run.handed.cols)
        /\ ColFecha \in Range(run.sin_df.cols) => SortedOn(run.sin_df.rows, ColFecha)
        /\ ColColaborador \in Range(run.sin_df.cols) =>
              \A k \in 1..(Len(run.sin_df.rows) - 1) :
                 ( ColFecha \in Range(run.sin_df.cols) =>
                      run.sin_df.rows[k][ColFecha] = run.sin_df.rows[k + 1][ColFecha] )
                 => ~StrLess(run.sin_df.rows[k + 1][ColColaborador],
                             run.sin_df.rows[k][ColColaborador])

\* The list of allowed departments that the config.yml of the run sets: none
\* when there is no file, no filters key, no value under it or no
\* allowed_departments in it
ListOfFile(file) ==
    IF file.exists /\ file.filters = "section" /\ file.has_allowed
    THEN file.allowed_departments ELSE <<>>

\* The department equals, ignoring case, one of the strings of list
EqualsOneOf(dept, list) ==
    \E k \in 1..Len(list) :
        /\ Len(list[k]) = Len(dept)
        /\ \A j \in 1..Len(dept) : UpperChar(list[k][j]) = UpperChar(dept[j])

\* The rows of the dataset that are to reach the aggregation of the run, were
\* the department filter the one of the file's list
KeptByFile == {i \in 1..Len(Handed) :
                 /\ InWindowOfCall(Handed[i][ColFecha])
                 /\ \/ ListOfFile(call.cfgFile) = <<>>
                    \/ EqualsOneOf(Handed[i][ColDepartamento], ListOfFile(call.cfgFile))}

\* C20: the department filter keeps a row exactly when its department equals,
\* ignoring case, one of the strings of filters.allowed_departments; with the
\* list empty or absent the filter is off and rows of every department reach
\* the aggregation, also when the configuration comes out of load_config
\* from a file that does not set the list.
C20_FilterOfConfigFile ==
    call.op = "load_config" =>
        /\ pc = "done"
        /\ Len(DetalleRows) = Cardinality(KeptByFile)
        /\ \A k \in 1..Len(DetalleRows) :
              EqualsOneOf(DetalleRows[k][ColDepartamento], ListOfFile(call.cfgFile))
                 \/ ListOfFile(call.cfgFile) = <<>>

\* The lowercase, trimmed, diacritic-folded copy of a text
Folded(s) == FoldAccents(StrLower(Strip(s)))

\* C21: two activity texts that differ only in letter case, in leading or
\* trailing whitespace or in diacritics receive the same availability flag
\* under the same configuration: whenever the text classified changes to one
\* with the same folded copy, the flag stays what it was.
C21_FoldedTextsSameFlag ==
    [][(actText.isStr /\ actText'.isStr /\ actCfg' = actCfg
          /\ Folded(actText'.s) = Folded(actText.s)) => actFlag' = actFlag]_vars

\* The scaling rule on base rules and a window of w days
ScaledHigh(high_days, w) ==
    IF w >= 30 THEN high_days
    ELSE IF (high_days * w + 29) \div 30 < 1 THEN 1 ELSE (high_days * w + 29) \div 30

ScaledLow(low_days, w) ==
    IF w >= 30 THEN low_days ELSE (low_days * w) \div 30

ScaledStreak(high_streak, w) ==
    IF w >= 30 \/ high_streak <= w THEN high_streak ELSE w

AtLeast(n, x) == IF x < n THEN n ELSE x

\* C22: the thresholds_used that classify_all returns are the scaling rule
\* applied to the rules of the configuration passed in and to the length of
\* the window of that call, for every input, one with no row in the window
\* included; they are never the built-in default rules when the configuration
\* passed differs from them.
C22_ThresholdsOfPassedConfig ==
    (call.op = "classify_all" /\ pc = "done") =>
        /\ Umbrales.window_days = Rango[2] - Rango[1] + 1
        /\ Umbrales.th_high_days
              = ScaledHigh(AtLeast(1, call.cfg.rules.high_days), Umbrales.window_days)
        /\ Umbrales.th_low_days
              = ScaledLow(AtLeast(0, call.cfg.rules.low_days), Umbrales.window_days)
        /\ Umbrales.th_streak
              = ScaledStreak(AtLeast(1, call.cfg.rules.high_streak), Umbrales.window_days)

\* What a call of classify_all gives its caller: the returned summary, detail
\* and metadata. classify_all writes to no log and no other channel.
Returned(res) == <<res.err, res.resumen, res.detalle, res.meta>>

\* C23: whenever the injected classifier raises and classify_all falls back
\* to the rule-based classifier, the run records the failure on a diagnostic
\* channel, so that the run can be told apart from the run on the same
\* inputs with no classifier injected.
C23_FallbackObservable ==
    (call.op = "classify_all" /\ call.ml.kind = "raises" /\ run.res.mlCalls = 1) =>
        Returned(run.res)
           # Returned(classify_all(loaded.df, call.cfg, MlNone, call.date_range, call.today))

\* The value matches the ID pattern after probe-normalization: what is left
\* of it without the characters other than digits and k/K is six to nine
\* digits and then a digit or k/K
ProbeMatches(s) ==
    /\ Len(RutClean(s)) \in 7..10
    /\ \A i \in 1..(Len(RutClean(s)) - 1) : RutClean(s)[i] \in Range(DigitSeq)

NonNullOf(c) == {i \in 1..Len(c.cells) : c.cells[i].isStr}

MatchingOf(c) == {i \in NonNullOf(c) : ProbeMatches(c.cells[i].s)}

\* score of column a <= score of column b, for columns with non-null values
\* (a column without any scores 0)
ScoreAtMost(a, b) ==
    \/ NonNullOf(a) = {}
    \/ /\ NonNullOf(b) # {}
       /\ Cardinality(MatchingOf(a)) * Cardinality(NonNullOf(b))
             <= Cardinality(MatchingOf(b)) * Cardinality(NonNullOf(a))

HasKnownName(c) == NormName(c.h) \in KnownRutNames

\* Column k of the file is the one the IDs are to be read from
IsRutsColumn(cols, k) ==
    IF \E j \in 1..Len(cols) : HasKnownName(cols[j])
    THEN HasKnownName(cols[k]) /\ \A j \in 1..(k - 1) : ~HasKnownName(cols[j])
    ELSE IF \E j \in 1..Len(cols) :
               /\ NonNullOf(cols[j]) # {}
               /\ 5 * Cardinality(MatchingOf(cols[j])) >= Cardinality(NonNullOf(cols[j]))
               /\ \A i \in 1..Len(cols) : ScoreAtMost(cols[i], cols[j])
         THEN /\ \A i \in 1..Len(cols) : ScoreAtMost(cols[i], cols[k])
              /\ \A i \in 1..(k - 1) : ~ScoreAtMost(cols[k], cols[i])
         ELSE k = 1

\* C24: with no column named as an ID column, load_valid_ruts scores every
\* column as (non-null values matching the ID pattern after
\* probe-normalization) / (non-null values) and reads the IDs from the column
\* of the highest score if that score is at least 0.2, the leftmost on a
\* tie, and from the first column otherwise; with a column so named, it
\* reads the first such column whatever the scores.
C24_AllowListColumn ==
    call.op = "load_valid_ruts" =>
        \E k \in 1..Len(call.rutsCsv) :
            /\ IsRutsColumn(call.rutsCsv, k)
            /\ call.rutsFile.valid = RutsOfColumn(call.rutsCsv[k].cells)

\* A file of two columns, neither named as an ID column: the first without
\* any ID, the second with IDs in half of its rows; the IDs read are those
\* of the second
C24_Witness ==
    /\ call.op = "load_valid_ruts"
    /\ Len(call.rutsCsv) = 2
    /\ \A j \in 1..2 : ~HasKnownName(call.rutsCsv[j])
    /\ call.rutsCsv[1].cells = <<NameCell, NameCell, NameCell, NameCell, NameCell, NameCell>>
    /\ call.rutsCsv[2].cells = <<RutCellB, NameCell, RutCellB, NameCell, RutCellB, NameCell>>
    /\ call.rutsFile.valid = {<<"2","2","2","2","2","2","2","-","K">>}

\* C25: format_rut never raises, and every input that is not a canonical ID
\* (not of the form ^\d{6,9}-[0-9K]$) it returns unchanged; canonical input
\* alone is regrouped into thousands, the check digit after a hyphen.
C25_FormatLeavesMalformed ==
    [][(call.op = "none" /\ call'.op = "format_rut_typed" /\ rutIn.isStr) =>
          IF IsCanonicalRut(rutIn.s)
          THEN SelectSeq(rutOut', LAMBDA c : c # ".") = rutIn.s
          ELSE rutOut' = rutIn.s]_vars

\* C26: every summary row classify_all produces has
\* 0 <= streak_max <= dias_disponibles <= dias_ventana, dias_ventana >= 1,
\* streak_max = 0 exactly when dias_disponibles = 0, and a percentage from 0
\* to 100 (in tenths: 0 to 1000); so for explicit windows, for the window
\* inferred from the data, and for reversed windows, which give no row.
C26_SummaryRowBounds ==
    pc = "done" =>
        /\ \A i \in 1..Len(Resumen) :
              /\ 0 <= Resumen[i][ColStreakMax]
              /\ Resumen[i][ColStreakMax] <= Resumen[i][ColDiasDisponibles]
              /\ Resumen[i][ColDiasDisponibles] <= Resumen[i][ColDiasVentana]
              /\ Resumen[i][ColDiasVentana] >= 1
              /\ Resumen[i][ColDiasVentana] = Umbrales.window_days
              /\ (Resumen[i][ColStreakMax] = 0) <=> (Resumen[i][ColDiasDisponibles] = 0)
              /\ 0 <= Resumen[i][ColPorcDisponible]
              /\ Resumen[i][ColPorcDisponible] <= 1000
        /\ ( /\ call.op = "classify_all"
             /\ call.date_range.given
             /\ call.date_range.start > call.date_range.end ) => Resumen = <<>>

\* A call without a window on rows of two dates: in the inferred window of
\* two days one person is available on one day, and another on none
C26_Witness ==
    /\ pc = "done"
    /\ call.op = "classify_all"
    /\ ~call.date_range.given
    /\ \E i, j \in 1..Len(Resumen) :
          /\ Resumen[i][ColDiasVentana] = 2
          /\ Resumen[i][ColDiasDisponibles] = 1
          /\ Resumen[i][ColStreakMax] = 1
          /\ Resumen[i][ColPorcDisponible] = 500
          /\ Resumen[j][ColDiasDisponibles] = 0
          /\ Resumen[j][ColStreakMax] = 0
          /\ Resumen[j][ColPorcDisponible] = 0

\* C27: when main runs with --use-ml and an ActivityClassifier was trained or
\* loaded, the availability flags of the run are the model's predictions: a
\* row the model labels available is flagged 1 even without a whitelist
\* keyword in its text, and a row it labels unavailable is flagged 0.
C27_FlagsAreModelPredictions ==
    (call.op = "main_use_ml" /\ pc = "done") =>
        \A i \in 1..Len(DetalleRows) : DetalleRows[i][ColDispFlag] = call.ml.flag

\* The file of the call sets the option k of its availability section
SetsAvailability(file, k) ==
    file.exists /\ file.availability.given /\ k \in DOMAIN file.availability.lists

SetsAllowedDepartments(file) ==
    file.exists /\ file.filters = "section" /\ file.has_allowed

\* C28: load_config merges the file over the built-in defaults option by
\* option: every option of a section that the file does not set has its
\* built-in default value in the configuration returned, also when the file
\* sets other options of that section; and after any sequence of load_config
\* calls a path that does not exist still gives the original defaults.
C28_MergeOptionByOption ==
    (call.op = "load_config_file" /\ run.err = "none") =>
        /\ \A k \in AvailabilityKeys :
              IF SetsAvailability(call.cfgFile, k)
              THEN call.cfg.availability[k] = call.cfgFile.availability.lists[k]
              ELSE call.cfg.availability[k] = DEFAULT_CFG.availability[k]
        /\ IF SetsAllowedDepartments(call.cfgFile)
           THEN call.cfg.filters.allowed_departments = call.cfgFile.allowed_departments
           ELSE call.cfg.filters = DEFAULT_CFG.filters
        /\ call.cfg.rules = DEFAULT_CFG.rules
        /\ ~call.cfgFile.exists => call.cfg = DEFAULT_CFG

\* The rows of the dataset as they come to the allow-list step
BeforeAllowList == RenormalizeRut(load_dataset(raw).df).rows

\* The allow-list step of the run is taken: a file that exists and gives at
\* least one ID, and in the form the option filter_valid_ruts
AllowListActive ==
    /\ call.rutsFile.exists
    /\ call.rutsFile.valid # {}
    /\ call.op = "run_pipeline" => call.opts.filter_valid_ruts

\* x and y are the same row as far as ruts_fuera_de_lista.csv keeps its columns
SameFueraRow(x, y) == \A c \in Range(FueraCols) : x[c] = y[c]

TimesIn(rows, x) == Cardinality({i \in 1..Len(rows) : SameFueraRow(rows[i], x)})

Disturbed(saw, t) ==
    /\ saw.state \in {"absent", "writing"}
    /\ saw.by \notin {0, t}

\* C30: in every interleaving of the threads started by on_run and
\* on_download, no run reads the dataset or the allow-list file while another
\* thread has deleted it or is rewriting it, and the files at the paths a
\* run reports are the ones that run wrote
C30_ThreadsDoNotInterfere ==
    \A t \in Threads :
        /\ ~Disturbed(threads[t].sawDisp, t)
        /\ ~Disturbed(threads[t].sawRuts, t)
        /\ threads[t].kind = "run" /\ threads[t].pc = "done"
              => \A f \in Outputs : threads[t].reported[f] = t

====
